---------------------------- MODULE Spec2Model ----------------------------
(***************************************************************************)
(* sloppy-parser-js: the lattice lexer (SoftTokenizer), the segmentation   *)
(* parser (SoftParser), the JSON and YAML read-repair reconstructors, the  *)
(* repair orchestrator (repairObjectCandidate), the pipeline driver        *)
(* (parseRaw) and the json projection (parseJson).                         *)
(*                                                                         *)
(* A text is a sequence of characters; a character is a one-character      *)
(* string (the two curly quotes are written "LDQ" and "RDQ", the backtick  *)
(* "BQ").  Positions                                                       *)
(* are 0-based as in the source: the character at position p of s is       *)
(* s[p + 1].                                                               *)
(***************************************************************************)
EXTENDS Integers, Sequences, FiniteSets, TLC

(***************************************************************************)
(* Calls                                                                   *)
(*                                                                         *)
(* call(f, a) is the call of function or method f of the program on the   *)
(* arguments a.  The definitions below call one another through it, which *)
(* lets TLC expand a definition once rather than at each of its uses when *)
(* it collects coverage.                                                   *)
(***************************************************************************)
RECURSIVE call(_, _)

(***************************************************************************)
(* Characters and character classes                                        *)
(***************************************************************************)
LowerLetters ==
  <<"a","b","c","d","e","f","g","h","i","j","k","l","m",
    "n","o","p","q","r","s","t","u","v","w","x","y","z">>

UpperLetters ==
  <<"A","B","C","D","E","F","G","H","I","J","K","L","M",
    "N","O","P","Q","R","S","T","U","V","W","X","Y","Z">>

\* /[a-z]/i
AsciiLetter == {LowerLetters[i] : i \in DOMAIN LowerLetters}
                 \cup {UpperLetters[i] : i \in DOMAIN UpperLetters}

\* /[0-9]/
Digit == {"0","1","2","3","4","5","6","7","8","9"}

\* /[a-zA-Z_$]/
WordStart == AsciiLetter \cup {"_", "$"}

\* /[a-zA-Z0-9_$-]/
WordChar == WordStart \cup Digit \cup {"-"}

\* /[\s]/ restricted to the characters a text of the model can hold
Space == {" ", "\t", "\n", "\r"}

\* String.prototype.toLowerCase on one character
toLowerCase(c) ==
  IF \E i \in DOMAIN UpperLetters : UpperLetters[i] = c
    THEN LowerLetters[CHOOSE i \in DOMAIN UpperLetters : UpperLetters[i] = c]
    ELSE c

(***************************************************************************)
(* Text helpers (String.prototype.substring, trim, join)                   *)
(***************************************************************************)
\* this.input[p] || ""
CharAt(s, p) == IF p >= 0 /\ p < Len(s) THEN s[p + 1] ELSE ""

\* s.substring(a, b) for 0 <= a
substring(s, a, b) ==
  LET e == IF b > Len(s) THEN Len(s) ELSE b
  IN  IF a >= e THEN <<>> ELSE SubSeq(s, a + 1, e)

RECURSIVE trimStart(_)
trimStart(s) ==
  IF s # <<>> /\ Head(s) \in Space THEN trimStart(Tail(s)) ELSE s

RECURSIVE trimEnd(_)
trimEnd(s) ==
  IF s # <<>> /\ s[Len(s)] \in Space THEN trimEnd(SubSeq(s, 1, Len(s) - 1)) ELSE s

\* String.prototype.trim
trim(s) == trimEnd(trimStart(s))

\* first position >= p whose character is not in class C (or the length)
RECURSIVE scanWhile(_, _, _)
scanWhile(s, p, C) ==
  IF p < Len(s) /\ s[p + 1] \in C THEN scanWhile(s, p + 1, C) ELSE p

(***************************************************************************)
(* SoftTokenizer: token candidates at a cursor                             *)
(***************************************************************************)
\* a TokenCandidate; repair = "" when the source leaves it undefined
Token(type, value, endPos, score, repair) ==
  [type |-> type, value |-> value, endPos |-> endPos, score |-> score,
   repair |-> repair]

isEOF(s, pos) == pos >= Len(s)

tryFence(s, pos) ==
  IF substring(s, pos, pos + 3) # <<"BQ", "BQ", "BQ">> THEN <<>>
  ELSE
    LET e    == scanWhile(s, pos + 3, AsciiLetter)
        lang == [i \in 1..(e - (pos + 3)) |-> toLowerCase(s[pos + 3 + i])]
    IN  IF lang = <<"j","s","o","n">>
          THEN <<Token("FENCE_JSON", <<"BQ","BQ","BQ","j","s","o","n">>, e, 0, "")>>
        ELSE IF lang = <<"y","a","m","l">>
          THEN <<Token("FENCE_YAML", <<"BQ","BQ","BQ","y","a","m","l">>, e, 0, "")>>
        ELSE <<Token("FENCE_END", <<"BQ","BQ","BQ">>, pos + 3, 0, "")>>

\* the scan of a "..." or '...' string from position p (just after the
\* opening quote): [found, value, endPos]; the character after a backslash
\* is appended as it is
RECURSIVE scanQuoted(_, _, _, _, _)
scanQuoted(s, p, quote, value, escaped) ==
  IF p >= Len(s) THEN [found |-> FALSE, value |-> value, endPos |-> p]
  ELSE
    LET c == s[p + 1]
    IN  IF escaped THEN scanQuoted(s, p + 1, quote, Append(value, c), FALSE)
        ELSE IF c = "\\" THEN scanQuoted(s, p + 1, quote, value, TRUE)
        ELSE IF c = quote THEN [found |-> TRUE, value |-> value, endPos |-> p + 1]
        ELSE scanQuoted(s, p + 1, quote, Append(value, c), FALSE)

tryString(s, pos) ==
  LET ch == CharAt(s, pos)
  IN  IF ch = "\""
        THEN LET r == scanQuoted(s, pos + 1, "\"", <<>>, FALSE)
             IN  IF r.found THEN <<Token("STRING", r.value, r.endPos, 0, "")>>
                 ELSE <<>>
      ELSE IF ch = "'"
        THEN LET prevChar == CharAt(s, pos - 1)
                 isProbablyStringDelimiter ==
                   prevChar \in {":", ",", "[", "{"} \/ pos - 1 < 0
                 r == scanQuoted(s, pos + 1, "'", <<>>, FALSE)
             IN  IF isProbablyStringDelimiter /\ r.found
                   THEN <<Token("STRING", r.value, r.endPos, 1, "")>>
                   ELSE <<>>
      ELSE IF ch \in {"LDQ", "RDQ"}
        THEN LET e == scanWhile(s, pos + 1,
                                {s[i] : i \in DOMAIN s} \ {"LDQ", "RDQ"})
             IN  IF e < Len(s)
                   THEN <<Token("STRING", substring(s, pos + 1, e), e + 1, 2,
                                "normalized unicode quotes")>>
                   ELSE <<>>
      ELSE <<>>

tryNumber(s, pos) ==
  LET ch == CharAt(s, pos)
      p1 == IF ch = "-" THEN pos + 1 ELSE pos
      p2 == scanWhile(s, p1, Digit)
      p3 == IF CharAt(s, p2) = "." THEN scanWhile(s, p2 + 1, Digit) ELSE p2
  IN  IF ch \notin (Digit \cup {"-"}) THEN <<>>
      ELSE IF CharAt(s, p1) \notin Digit THEN <<>>
      ELSE <<Token("NUMBER", substring(s, pos, p3), p3, 0, "")>>

tryKeyword(s, pos) ==
  (IF substring(s, pos, pos + 4) = <<"t","r","u","e">>
     THEN <<Token("BOOLEAN", <<"t","r","u","e">>, pos + 4, 0, "")>> ELSE <<>>)
  \o
  (IF substring(s, pos, pos + 5) = <<"f","a","l","s","e">>
     THEN <<Token("BOOLEAN", <<"f","a","l","s","e">>, pos + 5, 0, "")>> ELSE <<>>)
  \o
  (IF substring(s, pos, pos + 4) = <<"n","u","l","l">>
     THEN <<Token("NULL", <<"n","u","l","l">>, pos + 4, 0, "")>> ELSE <<>>)

tryBareWord(s, pos) ==
  IF CharAt(s, pos) \notin WordStart THEN <<>>
  ELSE
    LET e     == scanWhile(s, pos, WordChar)
        value == substring(s, pos, e)
    IN  IF value \in {<<"t","r","u","e">>, <<"f","a","l","s","e">>,
                      <<"n","u","l","l">>}
          THEN <<>>
          ELSE <<Token("BARE_WORD", value, e, 2, "bare word (should be quoted)")>>

punctMap(ch) ==
  CASE ch = "{" -> "BRACE_OPEN"
    [] ch = "}" -> "BRACE_CLOSE"
    [] ch = "[" -> "BRACKET_OPEN"
    [] ch = "]" -> "BRACKET_CLOSE"
    [] ch = ":" -> "COLON"
    [] ch = "," -> "COMMA"
    [] ch = "-" -> "DASH"
    [] OTHER    -> ""

tryPunctuation(s, pos) ==
  LET ch == CharAt(s, pos)
  IN  IF punctMap(ch) = "" THEN <<>>
      ELSE <<Token(punctMap(ch), <<ch>>, pos + 1, 0, "")>>

tryWhitespace(s, pos) ==
  IF CharAt(s, pos) \notin Space THEN <<>>
  ELSE
    LET e          == scanWhile(s, pos, Space)
        value      == substring(s, pos, e)
        hasNewline == \E i \in DOMAIN value : value[i] = "\n"
    IN  <<Token(IF hasNewline THEN "NEWLINE" ELSE "WHITESPACE", value, e, 0, "")>>

\* a variant of tryTextChar whose token ends where it starts
tryTextCharInPlace(s, pos) == <<Token("TEXT", <<CharAt(s, pos)>>, pos, 0, "")>>

tryTextChar(s, pos) == <<Token("TEXT", <<CharAt(s, pos)>>, pos + 1, 0, "")>>

\* Array.prototype.sort((a, b) => a.score - b.score): a stable sort
sortByScore(cands) ==
  SelectSeq(cands, LAMBDA c : c.score = 0)
    \o SelectSeq(cands, LAMBDA c : c.score = 1)
    \o SelectSeq(cands, LAMBDA c : c.score >= 2)

nextTokenCandidates(s, pos) ==
  IF isEOF(s, pos) THEN <<>>
  ELSE
    LET candidates ==
          tryFence(s, pos) \o tryString(s, pos) \o tryNumber(s, pos)
            \o tryKeyword(s, pos) \o tryBareWord(s, pos)
            \o tryPunctuation(s, pos) \o tryWhitespace(s, pos)
    IN  sortByScore(IF candidates = <<>> THEN tryTextChar(s, pos) ELSE candidates)

\* the token consumeBest returns; type "" stands for null (no candidate)
NoToken == Token("", <<>>, 0 - 1, 0, "")

bestToken(s, pos) ==
  LET candidates == call("nextTokenCandidates", <<s, pos>>)
  IN  IF candidates = <<>> THEN [NoToken EXCEPT !.endPos = pos]
      ELSE candidates[1]

\* the cursor after consumeBest
consumeBest(s, pos) == call("bestToken", <<s, pos>>).endPos

\* the type of the best candidate, "" when there is none
bestType(s, pos) == call("bestToken", <<s, pos>>).type

(***************************************************************************)
(* JSON values, JSON.parse and JSON.stringify (the strict decoder and the  *)
(* encoder of the JavaScript runtime)                                      *)
(*                                                                         *)
(* A value is a record with one field per kind, so that two values of      *)
(* different kinds compare field by field: t the kind, b a boolean, n a    *)
(* number <<m, e>> standing for m * 10^e with m not divisible by 10, s a   *)
(* string, a the elements of an array, o the members of an object in       *)
(* insertion order (records [k, w], keys unique).                          *)
(***************************************************************************)
JBlank == [t |-> "null", b |-> FALSE, n |-> <<0, 0>>, s |-> <<>>, a |-> <<>>,
           o |-> <<>>]

JNull == JBlank

JBool(b) == [JBlank EXCEPT !.t = "bool", !.b = b]

RECURSIVE normNum(_, _)
normNum(m, e) ==
  IF m = 0 THEN <<0, 0>>
  ELSE IF m % 10 = 0 THEN normNum(m \div 10, e + 1)
  ELSE <<m, e>>

JNum(m, e) == [JBlank EXCEPT !.t = "num", !.n = normNum(m, e)]

JStr(s) == [JBlank EXCEPT !.t = "str", !.s = s]

JArr(a) == [JBlank EXCEPT !.t = "arr", !.a = a]

JObj(o) == [JBlank EXCEPT !.t = "obj", !.o = o]

\* obj[k] = w on an object's member list: an existing key keeps its place
setMember(o, k, w) ==
  IF \E i \in DOMAIN o : o[i].k = k
    THEN [i \in DOMAIN o |-> IF o[i].k = k THEN [k |-> k, w |-> w] ELSE o[i]]
    ELSE Append(o, [k |-> k, w |-> w])

hasMember(o, k) == \E i \in DOMAIN o : o[i].k = k

getMember(o, k) == o[CHOOSE i \in DOMAIN o : o[i].k = k].w

\* deep equality of decoded values: member order does not count
RECURSIVE deepEqual(_, _)
deepEqual(x, y) ==
  /\ x.t = y.t
  /\ CASE x.t = "arr" ->
            /\ Len(x.a) = Len(y.a)
            /\ \A i \in DOMAIN x.a : deepEqual(x.a[i], y.a[i])
       [] x.t = "obj" ->
            /\ Len(x.o) = Len(y.o)
            /\ \A i \in DOMAIN x.o :
                 /\ hasMember(y.o, x.o[i].k)
                 /\ deepEqual(x.o[i].w, getMember(y.o, x.o[i].k))
       [] OTHER -> x = y

digitValue(c) ==
  CASE c = "0" -> 0 [] c = "1" -> 1 [] c = "2" -> 2 [] c = "3" -> 3
    [] c = "4" -> 4 [] c = "5" -> 5 [] c = "6" -> 6 [] c = "7" -> 7
    [] c = "8" -> 8 [] c = "9" -> 9

\* the integer written by a run of digits (0 for the empty run)
RECURSIVE digitsValue(_, _)
digitsValue(ds, acc) ==
  IF ds = <<>> THEN acc ELSE digitsValue(Tail(ds), 10 * acc + digitValue(Head(ds)))

HexDigit == Digit \cup {"a","b","c","d","e","f","A","B","C","D","E","F"}

JsonSpace == {" ", "\t", "\n", "\r"}

\* characters U+0000..U+001F a text of the model can hold
ControlChar == {"\t", "\n", "\r"}

JFail(p) == [ok |-> FALSE, v |-> JNull, pos |-> p]

JOk(v, p) == [ok |-> TRUE, v |-> v, pos |-> p]

\* a JSON number at p: -?(0|[1-9][0-9]*)(\.[0-9]+)?([eE][+-]?[0-9]+)?
jsonNumber(s, p) ==
  LET neg  == CharAt(s, p) = "-"
      i0   == IF neg THEN p + 1 ELSE p
      i1   == scanWhile(s, i0, Digit)
      hasF == CharAt(s, i1) = "."
      f1   == IF hasF THEN scanWhile(s, i1 + 1, Digit) ELSE i1
      hasE == CharAt(s, f1) \in {"e", "E"}
      x0   == IF hasE /\ CharAt(s, f1 + 1) \in {"+", "-"} THEN f1 + 2 ELSE f1 + 1
      x1   == IF hasE THEN scanWhile(s, x0, Digit) ELSE f1
      intD == substring(s, i0, i1)
      frD  == IF hasF THEN substring(s, i1 + 1, f1) ELSE <<>>
      exV  == IF hasE THEN digitsValue(substring(s, x0, x1), 0) ELSE 0
      ex   == IF hasE /\ CharAt(s, f1 + 1) = "-" THEN 0 - exV ELSE exV
      mag  == digitsValue(intD \o frD, 0)
  IN  IF i1 = i0 THEN JFail(p)
      ELSE IF i1 - i0 > 1 /\ CharAt(s, i0) = "0" THEN JFail(p)
      ELSE IF hasF /\ f1 = i1 + 1 THEN JFail(p)
      ELSE IF hasE /\ x1 = x0 THEN JFail(p)
      ELSE JOk(JNum(IF neg THEN 0 - mag ELSE mag, ex - Len(frD)), x1)

\* a JSON string whose opening quote is at p - 1: [ok, v (the text), pos]
RECURSIVE jsonStringBody(_, _, _)
jsonStringBody(s, p, acc) ==
  IF p >= Len(s) THEN [ok |-> FALSE, v |-> acc, pos |-> p]
  ELSE
    LET c == s[p + 1]
        d == CharAt(s, p + 1)
    IN  IF c = "\"" THEN [ok |-> TRUE, v |-> acc, pos |-> p + 1]
        ELSE IF c \in ControlChar THEN [ok |-> FALSE, v |-> acc, pos |-> p]
        ELSE IF c # "\\" THEN jsonStringBody(s, p + 1, Append(acc, c))
        ELSE IF d \in {"\"", "\\", "/"} THEN jsonStringBody(s, p + 2, Append(acc, d))
        ELSE IF d = "n" THEN jsonStringBody(s, p + 2, Append(acc, "\n"))
        ELSE IF d = "t" THEN jsonStringBody(s, p + 2, Append(acc, "\t"))
        ELSE IF d = "r" THEN jsonStringBody(s, p + 2, Append(acc, "\r"))
        ELSE IF d = "b" THEN jsonStringBody(s, p + 2, Append(acc, "BS"))
        ELSE IF d = "f" THEN jsonStringBody(s, p + 2, Append(acc, "FF"))
        ELSE IF d = "u" /\ p + 6 <= Len(s)
                /\ \A i \in 2..5 : CharAt(s, p + i) \in HexDigit
          THEN jsonStringBody(s, p + 6, Append(acc, "UNI"))
        ELSE [ok |-> FALSE, v |-> acc, pos |-> p]


\* the members of an object after "{" or ",": p is at the next key
jsonMembers(s, p, acc) ==
  LET k0 == scanWhile(s, p, JsonSpace)
      k  == IF CharAt(s, k0) = "\"" THEN jsonStringBody(s, k0 + 1, <<>>)
            ELSE [ok |-> FALSE, v |-> <<>>, pos |-> k0]
      c  == scanWhile(s, k.pos, JsonSpace)
      v  == call("jsonValue", <<s, c + 1>>)
      e  == scanWhile(s, v.pos, JsonSpace)
      o2 == setMember(acc, k.v, v.v)
  IN  IF ~k.ok \/ CharAt(s, c) # ":" THEN JFail(p)
      ELSE IF ~v.ok THEN JFail(p)
      ELSE IF CharAt(s, e) = "}" THEN JOk(JObj(o2), e + 1)
      ELSE IF CharAt(s, e) = "," THEN call("jsonMembers", <<s, e + 1, o2>>)
      ELSE JFail(p)

\* the elements of an array after "[" or ",": p is at the next element
jsonElements(s, p, acc) ==
  LET v == call("jsonValue", <<s, p>>)
      e == scanWhile(s, v.pos, JsonSpace)
  IN  IF ~v.ok THEN JFail(p)
      ELSE IF CharAt(s, e) = "]" THEN JOk(JArr(Append(acc, v.v)), e + 1)
      ELSE IF CharAt(s, e) = "," THEN call("jsonElements", <<s, e + 1, Append(acc, v.v)>>)
      ELSE JFail(p)

\* a JSON value at p after optional white space
jsonValue(s, p) ==
  LET q == scanWhile(s, p, JsonSpace)
      c == CharAt(s, q)
  IN  IF c = "{"
        THEN LET r == scanWhile(s, q + 1, JsonSpace)
             IN  IF CharAt(s, r) = "}" THEN JOk(JObj(<<>>), r + 1)
                 ELSE call("jsonMembers", <<s, q + 1, <<>>>>)
      ELSE IF c = "["
        THEN LET r == scanWhile(s, q + 1, JsonSpace)
             IN  IF CharAt(s, r) = "]" THEN JOk(JArr(<<>>), r + 1)
                 ELSE call("jsonElements", <<s, q + 1, <<>>>>)
      ELSE IF c = "\""
        THEN LET r == jsonStringBody(s, q + 1, <<>>)
             IN  IF r.ok THEN JOk(JStr(r.v), r.pos) ELSE JFail(q)
      ELSE IF c \in Digit \cup {"-"} THEN call("jsonNumber", <<s, q>>)
      ELSE IF substring(s, q, q + 4) = <<"t","r","u","e">> THEN JOk(JBool(TRUE), q + 4)
      ELSE IF substring(s, q, q + 5) = <<"f","a","l","s","e">>
        THEN JOk(JBool(FALSE), q + 5)
      ELSE IF substring(s, q, q + 4) = <<"n","u","l","l">> THEN JOk(JNull, q + 4)
      ELSE JFail(q)

\* JSON.parse(text): ok = FALSE where it throws SyntaxError
JSONparse(text) ==
  LET r == call("jsonValue", <<text, 0>>)
  IN  IF r.ok /\ scanWhile(text, r.pos, JsonSpace) = Len(text)
        THEN [ok |-> TRUE, v |-> r.v]
        ELSE [ok |-> FALSE, v |-> JNull]

DigitChars == <<"0","1","2","3","4","5","6","7","8","9">>

\* the decimal digits of a natural number
RECURSIVE natDigits(_)
natDigits(n) ==
  IF n < 10 THEN <<DigitChars[n + 1]>>
  ELSE Append(natDigits(n \div 10), DigitChars[(n % 10) + 1])

repeatChar(c, k) == [i \in 1..k |-> c]

\* Number.prototype.toString for m * 10^e (decimal notation)
numberToString(n) ==
  LET m    == n[1]
      e    == n[2]
      d    == natDigits(IF m < 0 THEN 0 - m ELSE m)
      sign == IF m < 0 THEN <<"-">> ELSE <<>>
  IN  IF e >= 0 THEN sign \o d \o repeatChar("0", e)
      ELSE IF Len(d) > 0 - e
        THEN sign \o SubSeq(d, 1, Len(d) + e) \o <<".">>
               \o SubSeq(d, Len(d) + e + 1, Len(d))
      ELSE sign \o <<"0", ".">> \o repeatChar("0", (0 - e) - Len(d)) \o d

\* the JSON escape of one character of a string
quoteChar(c) ==
  CASE c = "\"" -> <<"\\", "\"">>
    [] c = "\\" -> <<"\\", "\\">>
    [] c = "\n" -> <<"\\", "n">>
    [] c = "\t" -> <<"\\", "t">>
    [] c = "\r" -> <<"\\", "r">>
    [] c = "BS" -> <<"\\", "b">>
    [] c = "FF" -> <<"\\", "f">>
    [] OTHER    -> <<c>>

RECURSIVE quoteChars(_)
quoteChars(s) ==
  IF s = <<>> THEN <<>> ELSE quoteChar(Head(s)) \o quoteChars(Tail(s))

\* JSON.stringify of a string
quoteString(s) == <<"\"">> \o quoteChars(s) \o <<"\"">>

\* JSON.stringify(value, null, 2) with the current indentation ind
stringifyItems(items, isObj, ind, i) ==
  IF i > Len(items) THEN <<>>
  ELSE
    repeatChar(" ", ind)
      \o (IF isObj
            THEN quoteString(items[i].k) \o <<":", " ">>
                   \o call("stringifyValue", <<items[i].w, ind>>)
            ELSE call("stringifyValue", <<items[i], ind>>))
      \o (IF i < Len(items) THEN <<",">> ELSE <<>>)
      \o <<"\n">>
      \o call("stringifyItems", <<items, isObj, ind, i + 1>>)

stringifyValue(x, ind) ==
  CASE x.t = "null" -> <<"n","u","l","l">>
    [] x.t = "bool" -> IF x.b THEN <<"t","r","u","e">> ELSE <<"f","a","l","s","e">>
    [] x.t = "num"  -> numberToString(x.n)
    [] x.t = "str"  -> quoteString(x.s)
    [] x.t = "arr"  ->
         IF x.a = <<>> THEN <<"[", "]">>
         ELSE <<"[", "\n">> \o call("stringifyItems", <<x.a, FALSE, ind + 2, 1>>)
                \o repeatChar(" ", ind) \o <<"]">>
    [] x.t = "obj"  ->
         IF x.o = <<>> THEN <<"{", "}">>
         ELSE <<"{", "\n">> \o call("stringifyItems", <<x.o, TRUE, ind + 2, 1>>)
                \o repeatChar(" ", ind) \o <<"}">>

\* JSON.stringify(obj, null, 2)
JSONstringify(x) == call("stringifyValue", <<x, 0>>)

(***************************************************************************)
(* ReadRepairReconstructor: the JSON read-repair reconstructor             *)
(*                                                                         *)
(* The reconstructor's fields are threaded as a record st: pos the         *)
(* tokenizer cursor, score, repairs, and hang, which is TRUE when a loop   *)
(* of the source has reached an iteration that repeats itself for ever.    *)
(***************************************************************************)
RState(pos, score, repairs, hang) ==
  [pos |-> pos, score |-> score, repairs |-> repairs, hang |-> hang]

\* `"${value}"`
inQuotes(value) == <<"\"">> \o value \o <<"\"">>

skipWhitespace(s, pos) ==
  IF bestType(s, pos) \in {"WHITESPACE", "NEWLINE"}
    THEN call("skipWhitespace", <<s, consumeBest(s, pos)>>)
    ELSE pos

\* the cursor after the loop of skipCommentRestOfLine
RECURSIVE restOfLine(_, _)
restOfLine(s, pos) ==
  IF isEOF(s, pos) \/ bestType(s, pos) = "" THEN pos
  ELSE IF bestType(s, pos) = "NEWLINE" THEN consumeBest(s, pos)
  ELSE restOfLine(s, consumeBest(s, pos))

skipCommentRestOfLine(s, st) ==
  [st EXCEPT !.pos = restOfLine(s, st.pos),
             !.repairs = Append(st.repairs, "removed comment"),
             !.score = st.score + 1]

skipComment(s, st) ==
  LET p   == call("skipWhitespace", <<s, st.pos>>)
      tok == call("bestToken", <<s, p>>)
      st1 == [st EXCEPT !.pos = p]
  IN  IF tok.type = "TEXT" /\ tok.value = <<"#">>
        THEN skipCommentRestOfLine(s, st1)
        ELSE st1

\* the multiword loop of parseKey: [pos, keyParts (joined)]
\* a variant of keyWords that consumes no further word
keyWordsFirstOnly(s, pos, keyParts) == [pos |-> pos, keyParts |-> keyParts]

RECURSIVE keyWords(_, _, _)
keyWords(s, pos, keyParts) ==
  LET nextToken == call("bestToken", <<s, pos>>)
  IN  IF isEOF(s, pos) \/ nextToken.type = "" THEN [pos |-> pos, keyParts |-> keyParts]
      ELSE IF nextToken.type \in {"NEWLINE", "BRACE_CLOSE", "COMMA"}
        THEN [pos |-> pos, keyParts |-> keyParts]
      ELSE IF nextToken.type = "BARE_WORD"
        THEN keyWords(s, nextToken.endPos, keyParts \o nextToken.value)
      ELSE IF nextToken.type = "WHITESPACE"
        THEN keyWords(s, nextToken.endPos, keyParts \o <<" ">>)
      ELSE [pos |-> pos, keyParts |-> keyParts]

\* parseKey: [ok, key, st]; ok = FALSE stands for null
parseKey(s, st) ==
  LET token == call("bestToken", <<s, st.pos>>)
  IN  IF token.type = "STRING"
        THEN [ok |-> TRUE, key |-> inQuotes(token.value),
              st |-> [st EXCEPT !.pos = token.endPos]]
      ELSE IF token.type = "BARE_WORD"
        THEN LET nextCands == call("nextTokenCandidates", <<s, token.endPos>>)
                 hasColon  ==
                   /\ Len(nextCands) > 0
                   /\ \/ nextCands[1].type = "COLON"
                      \/ /\ nextCands[1].type = "WHITESPACE"
                         /\ Len(nextCands) > 1
                         /\ nextCands[2].type = "COLON"
                 more == IF hasColon
                           THEN [pos |-> token.endPos, keyParts |-> token.value]
                           ELSE keyWords(s, token.endPos, token.value)
             IN  [ok |-> TRUE, key |-> inQuotes(call("trim", <<more.keyParts>>)),
                  st |-> [st EXCEPT !.pos = more.pos,
                                    !.repairs = Append(st.repairs, "quoted bare key"),
                                    !.score = st.score + 2]]
      ELSE [ok |-> FALSE, key |-> <<>>, st |-> st]

\* the loop of parseValue over an unquoted value: [pos, value, comment]
RECURSIVE bareValue(_, _, _)
bareValue(s, pos, value) ==
  LET cand == call("bestToken", <<s, pos>>)
  IN  IF cand.type = "" THEN [pos |-> pos, value |-> value, comment |-> FALSE]
      ELSE IF cand.type \in {"COMMA", "BRACE_CLOSE", "BRACKET_CLOSE"}
        THEN [pos |-> pos, value |-> value, comment |-> FALSE]
      ELSE IF cand.type = "TEXT" /\ cand.value = <<"#">>
        THEN [pos |-> pos, value |-> value, comment |-> TRUE]
      ELSE IF cand.type \in {"BARE_WORD", "WHITESPACE", "NEWLINE", "NUMBER", "TEXT"}
        THEN bareValue(s, cand.endPos, value \o cand.value)
      ELSE [pos |-> pos, value |-> value, comment |-> FALSE]

\* the loop of parseValue over consecutive TEXT tokens: [pos, value]
RECURSIVE textValue(_, _, _)
textValue(s, pos, value) ==
  LET cand == call("bestToken", <<s, pos>>)
  IN  IF cand.type # "TEXT" THEN [pos |-> pos, value |-> value]
      ELSE textValue(s, cand.endPos, value \o cand.value)


\* a variant of addMissingComma that neither logs the repair nor counts it
addMissingCommaUnlogged(st) == st

\* parseObject where no COMMA stands between two pairs: the repair is logged
\* and costs 1 (the "," itself is pushed by the loop)
addMissingComma(st) ==
  [st EXCEPT !.repairs = Append(st.repairs, "added missing comma"),
             !.score = st.score + 1]

\* parseObject: [ok, json, st]; ok = FALSE stands for null
parseObject(s, st) ==
  LET p == call("skipWhitespace", <<s, st.pos>>)
  IN  IF bestType(s, p) # "BRACE_OPEN"
        THEN [ok |-> FALSE, json |-> <<>>, st |-> [st EXCEPT !.pos = p]]
        ELSE call("objectLoop", <<s, [st EXCEPT !.pos = consumeBest(s, p)], <<"{">>, FALSE>>)

\* parseArray: [ok, json, st]
parseArray(s, st) ==
  IF bestType(s, st.pos) # "BRACKET_OPEN"
    THEN [ok |-> FALSE, json |-> <<>>, st |-> st]
    ELSE call("arrayLoop", <<s, [st EXCEPT !.pos = consumeBest(s, st.pos)], <<"[">>, FALSE>>)

\* one pass of the while loop of parseObject and the passes after it
objectLoop(s, st, parts, needsComma) ==
  IF st.hang THEN [ok |-> TRUE, json |-> parts, st |-> st]
  ELSE IF isEOF(s, st.pos)
    THEN [ok |-> TRUE, json |-> parts \o <<"}">>,
          st |-> [st EXCEPT !.repairs = Append(st.repairs, "added missing closing brace"),
                            !.score = st.score + 3]]
  ELSE
    LET p1 == call("skipWhitespace", <<s, st.pos>>)
    IN  IF bestType(s, p1) = "BRACE_CLOSE"
          THEN [ok |-> TRUE, json |-> parts \o <<"}">>,
                st |-> [st EXCEPT !.pos = consumeBest(s, p1)]]
        ELSE
          LET hasComma == bestType(s, p1) = "COMMA"
              st2 == IF ~needsComma THEN [st EXCEPT !.pos = p1]
                     ELSE IF hasComma
                       THEN [st EXCEPT !.pos = call("skipWhitespace", <<s, consumeBest(s, p1)>>)]
                     ELSE addMissingComma([st EXCEPT !.pos = call("skipWhitespace", <<s, p1>>)])
              parts2 == IF needsComma THEN parts \o <<",">> ELSE parts
              kv == call("parseKeyValue", <<s, st2>>)
          IN  IF kv.ok
                THEN call("objectLoop", <<s, kv.st, parts2 \o kv.json, TRUE>>)
                ELSE call("objectLoop", <<s, [kv.st EXCEPT !.pos = consumeBest(s, kv.st.pos)],
                                parts2, needsComma>>)

\* parseKeyValue: [ok, json, st]
parseKeyValue(s, st) ==
  LET k  == call("parseKey", <<s, [st EXCEPT !.pos = call("skipWhitespace", <<s, st.pos>>)]>>)
      p2 == call("skipWhitespace", <<s, k.st.pos>>)
  IN  IF ~k.ok THEN [ok |-> FALSE, json |-> <<>>, st |-> k.st]
      ELSE IF bestType(s, p2) # "COLON"
        THEN [ok |-> TRUE, json |-> k.key \o <<":", " ", "n", "u", "l", "l">>,
              st |-> [k.st EXCEPT !.pos = p2,
                        !.repairs = Append(k.st.repairs,
                                           "added missing colon and null value"),
                        !.score = k.st.score + 3]]
      ELSE
        LET p3 == call("skipWhitespace", <<s, consumeBest(s, p2)>>)
            v  == call("parseValue", <<s, [k.st EXCEPT !.pos = p3]>>)
        IN  [ok |-> TRUE, json |-> k.key \o <<":", " ">> \o v.json,
             st |-> IF v.st.hang THEN v.st ELSE call("skipComment", <<s, v.st>>)]

\* parseValue: [json, st]
parseValue(s, st) ==
  LET token == call("bestToken", <<s, st.pos>>)
      eat   == [st EXCEPT !.pos = token.endPos]
  IN  CASE token.type = "" -> [json |-> <<"n","u","l","l">>, st |-> st]
        [] token.type = "STRING" -> [json |-> inQuotes(token.value), st |-> eat]
        [] token.type = "NUMBER" -> [json |-> token.value, st |-> eat]
        [] token.type = "BOOLEAN" -> [json |-> token.value, st |-> eat]
        [] token.type = "NULL" -> [json |-> <<"n","u","l","l">>, st |-> eat]
        [] token.type = "BRACE_OPEN" ->
             LET obj == call("parseObject", <<s, st>>)
             IN  [json |-> IF obj.ok THEN obj.json ELSE <<"{", "}">>, st |-> obj.st]
        [] token.type = "BRACKET_OPEN" ->
             LET arr == call("parseArray", <<s, st>>)
             IN  [json |-> IF arr.ok THEN arr.json ELSE <<"[", "]">>, st |-> arr.st]
        [] token.type \in {"BARE_WORD", "NEWLINE"} ->
             LET r   == bareValue(s, st.pos, <<>>)
                 st1 == IF r.comment
                          THEN LET c == skipCommentRestOfLine(s, [st EXCEPT !.pos = r.pos])
                               IN  [c EXCEPT
                                      !.repairs = Append(c.repairs,
                                                  "removed inline comment after value"),
                                      !.score = c.score + 1]
                          ELSE [st EXCEPT !.pos = r.pos]
             IN  IF Len(r.value) = 0 THEN [json |-> <<"n","u","l","l">>, st |-> st1]
                 ELSE [json |-> inQuotes(call("trim", <<r.value>>)),
                       st |-> [st1 EXCEPT
                                 !.repairs = Append(st1.repairs, "quoted bare value"),
                                 !.score = st1.score + 2]]
        [] token.type = "TEXT" ->
             LET r == textValue(s, st.pos, <<>>)
             IN  [json |-> inQuotes(r.value),
                  st |-> [st EXCEPT
                            !.pos = r.pos,
                            !.repairs = Append(st.repairs, "quoted unicode/emoji value"),
                            !.score = st.score + 1]]
        [] OTHER -> [json |-> <<"n","u","l","l">>, st |-> st]

\* one pass of the while loop of parseArray and the passes after it; a pass
\* that starts with needsComma set and leaves the cursor where it was is
\* followed by the same pass again, without end
arrayLoop(s, st, parts, needsComma) ==
  IF st.hang THEN [ok |-> TRUE, json |-> parts, st |-> st]
  ELSE IF isEOF(s, st.pos)
    THEN [ok |-> TRUE, json |-> parts \o <<"]">>,
          st |-> [st EXCEPT !.repairs = Append(st.repairs, "added missing closing bracket"),
                            !.score = st.score + 3]]
  ELSE
    LET p1 == call("skipWhitespace", <<s, st.pos>>)
    IN  IF bestType(s, p1) = "BRACKET_CLOSE"
          THEN [ok |-> TRUE, json |-> parts \o <<"]">>,
                st |-> [st EXCEPT !.pos = consumeBest(s, p1)]]
        ELSE
          LET hasComma == bestType(s, p1) = "COMMA"
              st2 == IF ~needsComma THEN [st EXCEPT !.pos = p1]
                     ELSE IF hasComma
                       THEN [st EXCEPT !.pos = call("skipWhitespace", <<s, consumeBest(s, p1)>>)]
                     ELSE [st EXCEPT !.pos = call("skipWhitespace", <<s, p1>>),
                                     !.repairs = Append(st.repairs, "added missing comma"),
                                     !.score = st.score + 1]
              parts2 == IF needsComma THEN parts \o <<",">> ELSE parts
              v == call("parseValue", <<s, st2>>)
          IN  IF needsComma /\ ~v.st.hang /\ v.st.pos = st.pos
                THEN [ok |-> TRUE, json |-> parts2 \o v.json,
                      st |-> [v.st EXCEPT !.hang = TRUE]]
                ELSE call("arrayLoop", <<s, v.st, parts2 \o v.json, TRUE>>)

\* reconstructJSON: [success, json, repairs, warnings, score, hang]; score
\* Infinity is written -1; hang = TRUE when the call never returns
reconstructJSON(s) ==
  LET p0  == call("skipWhitespace", <<s, 0>>)
      st0 == RState(p0, 0, <<>>, FALSE)
      r   == IF call("nextTokenCandidates", <<s, p0>>) = <<>>
               THEN [ok |-> FALSE, json |-> <<>>, st |-> st0]
             ELSE IF bestType(s, p0) = "BRACKET_OPEN" THEN call("parseArray", <<s, st0>>)
             ELSE call("parseObject", <<s, st0>>)
  IN  IF r.st.hang
        THEN [success |-> FALSE, json |-> <<>>, repairs |-> r.st.repairs,
              warnings |-> <<>>, score |-> 0 - 1, hang |-> TRUE]
      ELSE IF ~r.ok
        THEN [success |-> FALSE, json |-> <<>>, repairs |-> r.st.repairs,
              warnings |-> <<"Failed to reconstruct as JSON">>, score |-> 0 - 1,
              hang |-> FALSE]
      ELSE IF call("JSONparse", <<r.json>>).ok
        THEN [success |-> TRUE, json |-> r.json, repairs |-> r.st.repairs,
              warnings |-> <<>>, score |-> r.st.score, hang |-> FALSE]
      ELSE [success |-> FALSE, json |-> <<>>, repairs |-> r.st.repairs,
            warnings |-> <<"Invalid JSON">>, score |-> 0 - 1, hang |-> FALSE]

(***************************************************************************)
(* YAMLReconstructor: the YAML read-repair reconstructor                   *)
(*                                                                         *)
(* Its fields are threaded as a record y: pos, score, repairs, currentKey  *)
(* (hasKey = FALSE for null), inArray, obj (the members of the mapping     *)
(* under construction) and hang.                                           *)
(***************************************************************************)
YState(pos, score, repairs, hasKey, currentKey, inArray, obj, hang) ==
  [pos |-> pos, score |-> score, repairs |-> repairs, hasKey |-> hasKey,
   currentKey |-> currentKey, inArray |-> inArray, obj |-> obj, hang |-> hang]

\* parseFloat of a NUMBER token -?[0-9]+(\.[0-9]*)?
parseFloat(value) ==
  LET neg  == Head(value) = "-"
      body == IF neg THEN Tail(value) ELSE value
      dot  == IF \E i \in DOMAIN body : body[i] = "."
                THEN CHOOSE i \in DOMAIN body : body[i] = "."
                ELSE Len(body) + 1
      intD == SubSeq(body, 1, dot - 1)
      frD  == SubSeq(body, dot + 1, Len(body))
      mag  == digitsValue(intD \o frD, 0)
  IN  JNum(IF neg THEN 0 - mag ELSE mag, 0 - Len(frD))

\* the capture loop of parseInlineJSON: [pos, jsonStr]
RECURSIVE inlineCapture(_, _, _, _)
inlineCapture(s, pos, jsonStr, braceDepth) ==
  LET token == call("bestToken", <<s, pos>>)
      str2  == jsonStr \o token.value
  IN  IF isEOF(s, pos) \/ token.type = "" THEN [pos |-> pos, jsonStr |-> jsonStr]
      ELSE IF token.type = "BRACE_OPEN"
        THEN inlineCapture(s, token.endPos, str2, braceDepth + 1)
      ELSE IF token.type = "BRACE_CLOSE" /\ braceDepth - 1 = 0
        THEN [pos |-> token.endPos, jsonStr |-> str2]
      ELSE IF token.type = "BRACE_CLOSE"
        THEN inlineCapture(s, token.endPos, str2, braceDepth - 1)
      ELSE inlineCapture(s, token.endPos, str2, braceDepth)

\* parseInlineJSON: [isNull, value, y]
parseInlineJSON(s, y) ==
  LET cap    == inlineCapture(s, y.pos, <<>>, 0)
      result == call("reconstructJSON", <<cap.jsonStr>>)
      y1     == [y EXCEPT !.pos = cap.pos]
  IN  IF result.hang THEN [isNull |-> TRUE, value |-> JNull, y |-> [y1 EXCEPT !.hang = TRUE]]
      ELSE IF result.success /\ result.json # <<>>
        THEN [isNull |-> FALSE, value |-> call("JSONparse", <<result.json>>).v,
              y |-> [y1 EXCEPT !.repairs = Append(y.repairs, "parsed inline JSON in YAML"),
                               !.score = y.score + 2]]
      ELSE [isNull |-> FALSE, value |-> JStr(cap.jsonStr), y |-> y1]

\* YAMLReconstructor.parseValue: [isNull, value, y]; isNull for a null result
yamlParseValue(s, y) ==
  LET token == call("bestToken", <<s, y.pos>>)
      eat   == [y EXCEPT !.pos = token.endPos]
  IN  CASE token.type = "STRING" -> [isNull |-> FALSE, value |-> JStr(token.value), y |-> eat]
        [] token.type = "NUMBER" ->
             [isNull |-> FALSE, value |-> parseFloat(token.value), y |-> eat]
        [] token.type = "BOOLEAN" ->
             [isNull |-> FALSE, value |-> JBool(token.value = <<"t","r","u","e">>),
              y |-> eat]
        [] token.type = "NULL" -> [isNull |-> TRUE, value |-> JNull, y |-> eat]
        [] token.type = "BRACE_OPEN" -> call("parseInlineJSON", <<s, y>>)
        [] token.type = "BARE_WORD" ->
             [isNull |-> FALSE, value |-> JStr(token.value), y |-> eat]
        [] OTHER -> [isNull |-> TRUE, value |-> JNull, y |-> y]

\* YAMLReconstructor.parseKey: [ok, key, pos]
yamlParseKey(s, pos) ==
  LET token == call("bestToken", <<s, pos>>)
  IN  IF token.type \in {"STRING", "BARE_WORD"}
        THEN [ok |-> TRUE, key |-> token.value, pos |-> token.endPos]
        ELSE [ok |-> FALSE, key |-> <<>>, pos |-> pos]

\* YAMLReconstructor.parseKeyValue: [ok, key, isNull, value, hasValue, y];
\* ok = FALSE stands for null, with the cursor back at the checkpoint
yamlParseKeyValue(s, y) ==
  LET k      == yamlParseKey(s, y.pos)
      p1     == call("skipWhitespace", <<s, k.pos>>)
      p2     == call("skipWhitespace", <<s, consumeBest(s, p1)>>)
      none   == [ok |-> FALSE, key |-> <<>>, isNull |-> TRUE, value |-> JNull,
                 hasValue |-> FALSE, y |-> y]
  IN  IF ~k.ok \/ k.key = <<>> THEN none
      ELSE IF bestType(s, p1) # "COLON" THEN none
      ELSE IF bestType(s, p2) \in {"NEWLINE", "DASH"} \/ isEOF(s, p2)
        THEN [ok |-> TRUE, key |-> k.key, isNull |-> TRUE, value |-> JNull,
              hasValue |-> FALSE, y |-> [y EXCEPT !.pos = p2]]
      ELSE LET v == call("yamlParseValue", <<s, [y EXCEPT !.pos = p2]>>)
           IN  [ok |-> TRUE, key |-> k.key, isNull |-> v.isNull, value |-> v.value,
                hasValue |-> TRUE, y |-> v.y]

\* the loop of peekNextLineIsList: the cursor after the rest of the line
RECURSIVE skipToNextLine(_, _)
skipToNextLine(s, pos) ==
  IF isEOF(s, pos) \/ bestType(s, pos) = "" THEN pos
  ELSE IF bestType(s, pos) = "NEWLINE" THEN consumeBest(s, pos)
  ELSE skipToNextLine(s, consumeBest(s, pos))

peekNextLineIsList(s, pos) ==
  bestType(s, call("skipWhitespace", <<s, skipToNextLine(s, pos)>>)) = "DASH"

\* JavaScript truthiness of a value
truthy(x) ==
  CASE x.t = "null" -> FALSE
    [] x.t = "bool" -> x.b
    [] x.t = "num"  -> x.n[1] # 0
    [] x.t = "str"  -> x.s # <<>>
    [] OTHER        -> TRUE

\* obj[currentKey] after the list-item branch has pushed item
pushListItem(obj, key, item) ==
  LET old   == IF hasMember(obj, key) /\ truthy(getMember(obj, key))
                 THEN getMember(obj, key) ELSE JArr(<<>>)
      array == IF old.t = "arr" THEN old ELSE JArr(<<old>>)
  IN  setMember(obj, key, JArr(Append(array.a, item)))

\* the while loop of parseYAMLDocument: the final state
yamlLoop(s, y) ==
  LET p1 == call("skipWhitespace", <<s, y.pos>>)
  IN  IF y.hang \/ isEOF(s, y.pos) \/ isEOF(s, p1) THEN y
      ELSE IF bestType(s, p1) = "DASH"
        THEN LET item == call("yamlParseValue", <<s, [y EXCEPT
                           !.pos = call("skipWhitespace", <<s, consumeBest(s, p1)>>)]>>)
             IN  IF ~item.isNull /\ item.y.hasKey /\ ~item.y.hang
                   THEN call("yamlLoop", <<s, [item.y EXCEPT
                          !.obj = pushListItem(item.y.obj, item.y.currentKey, item.value),
                          !.repairs = Append(item.y.repairs, "added list item"),
                          !.score = item.y.score + 1]>>)
                   ELSE call("yamlLoop", <<s, item.y>>)
      ELSE
        LET kv == call("yamlParseKeyValue", <<s, [y EXCEPT !.pos = p1]>>)
        IN  IF kv.ok /\ kv.y.hang THEN kv.y
            ELSE IF kv.ok /\ kv.hasValue
              THEN call("yamlLoop", <<s, [kv.y EXCEPT
                     !.obj = setMember(kv.y.obj, kv.key,
                                       IF kv.isNull THEN JNull ELSE kv.value),
                     !.hasKey = FALSE, !.currentKey = <<>>,
                     !.repairs = Append(kv.y.repairs, "converted YAML key-value"),
                     !.score = kv.y.score + 1]>>)
            ELSE IF kv.ok
              THEN LET nextIsList == peekNextLineIsList(s, kv.y.pos)
                   IN  call("yamlLoop", <<s, [kv.y EXCEPT
                         !.obj = setMember(kv.y.obj, kv.key,
                                   IF nextIsList THEN JArr(<<>>) ELSE JObj(<<>>)),
                         !.hasKey = TRUE, !.currentKey = kv.key,
                         !.inArray = kv.y.inArray \/ nextIsList,
                         !.repairs = Append(kv.y.repairs, "converted YAML key-value"),
                         !.score = kv.y.score + 1]>>)
            ELSE call("yamlLoop", <<s, [y EXCEPT !.pos = consumeBest(s, p1)]>>)

YamlPenalty == 5

\* parseYAMLDocument: the final state and the text JSON.stringify(obj, null, 2)
parseYAMLDocument(s) ==
  LET y == call("yamlLoop", <<s, YState(0, YamlPenalty, <<>>, FALSE, <<>>, FALSE, <<>>, FALSE)>>)
  IN  [y |-> y, json |-> IF y.hang THEN <<>> ELSE call("JSONstringify", <<JObj(y.obj)>>)]

\* reconstructYAML: [success, json, repairs, warnings, score, hang]
\* a variant of reconstructYAML that fails on a document with no pair
reconstructYAMLNoEmpty(s) ==
  LET d == call("parseYAMLDocument", <<s>>)
  IN  IF d.y.hang
        THEN [success |-> FALSE, json |-> <<>>, repairs |-> d.y.repairs,
              warnings |-> <<>>, score |-> 0 - 1, hang |-> TRUE]
      ELSE IF d.json = <<>> \/ d.y.obj = <<>>
        THEN [success |-> FALSE, json |-> <<>>, repairs |-> d.y.repairs,
              warnings |-> <<"Failed to reconstruct YAML">>, score |-> 0 - 1,
              hang |-> FALSE]
      ELSE [success |-> TRUE, json |-> d.json, repairs |-> d.y.repairs,
            warnings |-> <<>>, score |-> d.y.score, hang |-> FALSE]

reconstructYAML(s) ==
  LET d == call("parseYAMLDocument", <<s>>)
  IN  IF d.y.hang
        THEN [success |-> FALSE, json |-> <<>>, repairs |-> d.y.repairs,
              warnings |-> <<>>, score |-> 0 - 1, hang |-> TRUE]
      ELSE IF d.json = <<>>
        THEN [success |-> FALSE, json |-> <<>>, repairs |-> d.y.repairs,
              warnings |-> <<"Failed to reconstruct YAML">>, score |-> 0 - 1,
              hang |-> FALSE]
      ELSE IF call("JSONparse", <<d.json>>).ok
        THEN [success |-> TRUE, json |-> d.json, repairs |-> d.y.repairs,
              warnings |-> <<>>, score |-> d.y.score, hang |-> FALSE]
      ELSE [success |-> FALSE, json |-> <<>>, repairs |-> d.y.repairs,
            warnings |-> <<"YAML reconstruction failed">>, score |-> 0 - 1,
            hang |-> FALSE]

(***************************************************************************)
(* repairObjectCandidate: the repair orchestrator                          *)
(***************************************************************************)
\* Infinity
Infinity == 0 - 1

\* a RepairResult; hang = TRUE when the call never returns
RepairResult(success, object, repairedText, warnings, repairs, score, mode, hang) ==
  [success |-> success, object |-> object, repairedText |-> repairedText,
   warnings |-> warnings, repairs |-> repairs, score |-> score, mode |-> mode,
   hang |-> hang]

NeverReturns == RepairResult(FALSE, JNull, <<>>, <<>>, <<>>, Infinity, "", TRUE)

\* a variant that tries the YAML reconstructor before the JSON one
repairObjectCandidateYamlFirst(raw) ==
  LET yamlReconstructResult == call("reconstructYAML", <<raw>>)
  IN  IF yamlReconstructResult.hang THEN NeverReturns
      ELSE IF yamlReconstructResult.success /\ yamlReconstructResult.json # <<>>
                /\ call("JSONparse", <<yamlReconstructResult.json>>).ok
        THEN RepairResult(TRUE, call("JSONparse", <<yamlReconstructResult.json>>).v,
                          yamlReconstructResult.json, <<>>,
                          yamlReconstructResult.repairs,
                          yamlReconstructResult.score, "yaml-ish", FALSE)
      ELSE
        LET reconstructResult == call("reconstructJSON", <<raw>>)
        IN  IF reconstructResult.hang THEN NeverReturns
            ELSE IF reconstructResult.success /\ reconstructResult.json # <<>>
                      /\ call("JSONparse", <<reconstructResult.json>>).ok
              THEN RepairResult(TRUE, call("JSONparse", <<reconstructResult.json>>).v,
                                reconstructResult.json, <<>>,
                                reconstructResult.repairs,
                                reconstructResult.score, "json-ish", FALSE)
            ELSE RepairResult(FALSE, JNull, <<>>,
                              <<"All reconstruction attempts failed">>, <<>>,
                              Infinity, "json-ish", FALSE)

\* repairObjectCandidate: a RepairResult
repairObjectCandidate(raw) ==
  LET reconstructResult == call("reconstructJSON", <<raw>>)
  IN  IF reconstructResult.hang THEN NeverReturns
      ELSE IF reconstructResult.success /\ reconstructResult.json # <<>>
                /\ call("JSONparse", <<reconstructResult.json>>).ok
        THEN RepairResult(TRUE, call("JSONparse", <<reconstructResult.json>>).v,
                          reconstructResult.json, <<>>, reconstructResult.repairs,
                          reconstructResult.score, "json-ish", FALSE)
      ELSE
        LET yamlReconstructResult == call("reconstructYAML", <<raw>>)
        IN  IF yamlReconstructResult.hang THEN NeverReturns
            ELSE IF yamlReconstructResult.success /\ yamlReconstructResult.json # <<>>
                      /\ call("JSONparse", <<yamlReconstructResult.json>>).ok
              THEN RepairResult(TRUE, call("JSONparse", <<yamlReconstructResult.json>>).v,
                                yamlReconstructResult.json, <<>>,
                                yamlReconstructResult.repairs,
                                yamlReconstructResult.score, "yaml-ish", FALSE)
            ELSE RepairResult(FALSE, JNull, <<>>,
                              <<"All reconstruction attempts failed">>, <<>>,
                              Infinity, "json-ish", FALSE)

(***************************************************************************)
(* SoftParser: the segmentation parser                                     *)
(*                                                                         *)
(* A ParsePath is [blocks, score, repairs, position]; a SegmentedBlock is  *)
(* [type, text] with type "text" or [type, raw] with type                 *)
(* "object-candidate".  An attempt returns [ok, path, pos]: ok = FALSE     *)
(* stands for null and pos is where the attempt leaves the tokenizer.      *)
(***************************************************************************)
ParsePath(blocks, score, repairs, position) ==
  [blocks |-> blocks, score |-> score, repairs |-> repairs, position |-> position]

TextBlock(text) == [type |-> "text", text |-> text]

\* a variant of ObjectCandidate that makes a text block of the span
ObjectCandidateAsText(raw) == [type |-> "text", text |-> raw]

ObjectCandidate(raw) == [type |-> "object-candidate", raw |-> raw]

\* repairs with token.repair pushed when it is set
withRepair(repairs, token) ==
  IF token.repair # "" THEN Append(repairs, token.repair) ELSE repairs

\* candidates.find(c => c.type \in types): the first such candidate
findType(candidates, types) ==
  LET hits == SelectSeq(candidates, LAMBDA c : c.type \in types)
  IN  IF hits = <<>> THEN NoToken ELSE hits[1]

\* the backwards scan of looksLikeYAMLKey from i: TRUE when only spaces and
\* tabs lie between the cursor and the previous line break (or the start)
\* a variant of atLineStart that takes every position for the start of a line
atLineStartAnywhere(s, i) == TRUE

RECURSIVE atLineStart(_, _)
atLineStart(s, i) ==
  IF i < 0 THEN TRUE
  ELSE IF CharAt(s, i) \in {"\n", "\r"} THEN TRUE
  ELSE IF CharAt(s, i) \notin {" ", "\t"} THEN FALSE
  ELSE atLineStart(s, i - 1)

\* the cursor after the WHITESPACE tokens looksLikeYAMLKey skips
RECURSIVE skipSpaces(_, _)
skipSpaces(s, pos) ==
  IF bestType(s, pos) = "WHITESPACE" THEN skipSpaces(s, consumeBest(s, pos)) ELSE pos

looksLikeYAMLKey(s, pos) ==
  LET token     == call("bestToken", <<s, skipSpaces(s, pos)>>)
      hasWord   == token.type \in {"BARE_WORD", "STRING"}
      nextToken == call("bestToken", <<s, token.endPos>>)
      hasColon  == nextToken.type = "COLON"
  IN  /\ (pos > 0 => atLineStart(s, pos - 1))
      /\ hasWord
      /\ hasColon

looksLikeObjectStart(s, pos) ==
  LET candidates == call("nextTokenCandidates", <<s, pos>>)
  IN  /\ candidates # <<>>
      /\ \/ \E i \in DOMAIN candidates :
              candidates[i].type \in {"FENCE_JSON", "FENCE_YAML", "BRACE_OPEN",
                                      "BRACKET_OPEN"}
         \/ call("looksLikeYAMLKey", <<s, pos>>)

\* the capture loop of tryParseFencedJSON and tryParseFencedYAML:
\* [raw, score, repairs, pos]
RECURSIVE fenceCapture(_, _, _, _, _)
fenceCapture(s, pos, raw, score, repairs) ==
  LET closeFence == findType(call("nextTokenCandidates", <<s, pos>>), {"FENCE_END"})
      token      == call("bestToken", <<s, pos>>)
  IN  IF isEOF(s, pos) THEN [raw |-> raw, score |-> score, repairs |-> repairs, pos |-> pos]
      ELSE IF closeFence.type # ""
        THEN [raw |-> raw, score |-> score, repairs |-> repairs,
              pos |-> closeFence.endPos]
      ELSE fenceCapture(s, token.endPos, raw \o token.value, score + token.score,
                        withRepair(repairs, token))

NoPath(pos) == [ok |-> FALSE, path |-> ParsePath(<<>>, 0, <<>>, 0), pos |-> pos]

tryParseFencedJSON(s, pos, path) ==
  LET fence == findType(call("nextTokenCandidates", <<s, pos>>), {"FENCE_JSON"})
      c     == fenceCapture(s, fence.endPos, <<>>, path.score + fence.score,
                            withRepair(path.repairs, fence))
  IN  IF fence.type = "" THEN NoPath(pos)
      ELSE [ok |-> TRUE,
            path |-> ParsePath(Append(path.blocks, ObjectCandidate(call("trim", <<c.raw>>))),
                               c.score, c.repairs, c.pos),
            pos |-> c.pos]

tryParseFencedYAML(s, pos, path) ==
  LET fence == findType(call("nextTokenCandidates", <<s, pos>>), {"FENCE_YAML"})
      c     == fenceCapture(s, fence.endPos, <<>>, path.score + fence.score + YamlPenalty,
                            withRepair(Append(path.repairs, "YAML mode"), fence))
  IN  IF fence.type = "" THEN NoPath(pos)
      ELSE [ok |-> TRUE,
            path |-> ParsePath(Append(path.blocks, ObjectCandidate(call("trim", <<c.raw>>))),
                               c.score, c.repairs, c.pos),
            pos |-> c.pos]

\* the depth loop of tryParseJSONObject: [raw, depth, score, repairs, pos]
RECURSIVE braceCapture(_, _, _, _, _, _)
braceCapture(s, pos, raw, depth, score, repairs) ==
  LET token  == call("bestToken", <<s, pos>>)
      depth2 == IF token.type \in {"BRACE_OPEN", "BRACKET_OPEN"} THEN depth + 1
                ELSE IF token.type \in {"BRACE_CLOSE", "BRACKET_CLOSE"} THEN depth - 1
                ELSE depth
  IN  IF isEOF(s, pos) \/ ~(depth > 0) \/ token.type = ""
        THEN [raw |-> raw, depth |-> depth, score |-> score, repairs |-> repairs,
              pos |-> pos]
      ELSE braceCapture(s, token.endPos, raw \o token.value, depth2,
                        score + token.score, withRepair(repairs, token))

\* a variant of tryParseJSONObject whose path stays at the checkpoint
tryParseJSONObjectAtCheckpoint(s, pos, path) ==
  LET opener == findType(call("nextTokenCandidates", <<s, pos>>), {"BRACE_OPEN", "BRACKET_OPEN"})
      c      == braceCapture(s, opener.endPos, opener.value, 1,
                             path.score + opener.score,
                             withRepair(path.repairs, opener))
  IN  IF opener.type = "" THEN NoPath(pos)
      ELSE IF c.depth # 0 THEN NoPath(c.pos)
      ELSE [ok |-> TRUE,
            path |-> ParsePath(Append(path.blocks, ObjectCandidate(call("trim", <<c.raw>>))),
                               c.score, c.repairs, pos),
            pos |-> c.pos]

tryParseJSONObject(s, pos, path) ==
  LET opener == findType(call("nextTokenCandidates", <<s, pos>>), {"BRACE_OPEN", "BRACKET_OPEN"})
      c      == braceCapture(s, opener.endPos, opener.value, 1,
                             path.score + opener.score,
                             withRepair(path.repairs, opener))
  IN  IF opener.type = "" THEN NoPath(pos)
      ELSE IF c.depth # 0 THEN NoPath(c.pos)
      ELSE [ok |-> TRUE,
            path |-> ParsePath(Append(path.blocks, ObjectCandidate(call("trim", <<c.raw>>))),
                               c.score, c.repairs, c.pos),
            pos |-> c.pos]

looksLikeYAMLContinuation(s, pos) ==
  LET current == call("bestToken", <<s, pos>>)
      after   == skipSpaces(s, current.endPos)
  IN  IF current.type = "" THEN FALSE
      ELSE IF current.type = "NEWLINE"
        THEN /\ call("nextTokenCandidates", <<s, after>>) # <<>>
             /\ \/ bestType(s, after) = "DASH"
                \/ call("looksLikeYAMLKey", <<s, after>>)
      ELSE current.type \in {"DASH", "BARE_WORD", "STRING", "NUMBER", "BOOLEAN",
                             "NULL", "COLON", "WHITESPACE", "BRACE_OPEN"}

\* the loop of tryParseYAMLObject: [raw, score, repairs, pos]
RECURSIVE yamlCapture(_, _, _, _, _)
yamlCapture(s, pos, raw, score, repairs) ==
  LET token == call("bestToken", <<s, pos>>)
  IN  IF isEOF(s, pos) \/ ~call("looksLikeYAMLContinuation", <<s, pos>>) \/ token.type = ""
        THEN [raw |-> raw, score |-> score, repairs |-> repairs, pos |-> pos]
      ELSE yamlCapture(s, token.endPos, raw \o token.value, score + token.score,
                       withRepair(repairs, token))

tryParseYAMLObject(s, pos, path) ==
  LET c == yamlCapture(s, pos, <<>>, path.score + YamlPenalty,
                       Append(path.repairs, "YAML mode"))
  IN  IF ~call("looksLikeYAMLKey", <<s, pos>>) THEN NoPath(pos)
      ELSE IF Len(call("trim", <<c.raw>>)) = 0 THEN NoPath(c.pos)
      ELSE [ok |-> TRUE,
            path |-> ParsePath(Append(path.blocks, ObjectCandidate(call("trim", <<c.raw>>))),
                               c.score, c.repairs, c.pos),
            pos |-> c.pos]

\* results.sort((a, b) => a.score - b.score)[0] over the attempts that
\* returned a path: the first of those with the least score
bestResult(results) ==
  LET least == CHOOSE i \in DOMAIN results :
                 \A j \in DOMAIN results :
                   \/ results[i].path.score < results[j].path.score
                   \/ results[i].path.score = results[j].path.score /\ i <= j
  IN  results[least]

\* tryParseObjectBlock: [ok, path, pos]; every attempt starts at the
\* checkpoint and pos is where the last attempt leaves the tokenizer
tryParseObjectBlock(s, path) ==
  LET checkpoint == path.position
      attempts   == <<call("tryParseFencedJSON", <<s, checkpoint, path>>),
                      call("tryParseFencedYAML", <<s, checkpoint, path>>),
                      call("tryParseJSONObject", <<s, checkpoint, path>>),
                      call("tryParseYAMLObject", <<s, checkpoint, path>>)>>
      results    == SelectSeq(attempts, LAMBDA r : r.ok)
  IN  IF results = <<>> THEN NoPath(attempts[4].pos)
      ELSE [ok |-> TRUE, path |-> bestResult(results).path, pos |-> attempts[4].pos]

\* the loop of parseTextBlock: [text, pos]
RECURSIVE textCapture(_, _, _)
textCapture(s, pos, text) ==
  IF isEOF(s, pos) \/ call("looksLikeObjectStart", <<s, pos>>) THEN [text |-> text, pos |-> pos]
  ELSE textCapture(s, pos + 1, Append(text, s[pos + 1]))

\* a variant that puts the new block before the blocks of the path
parseTextBlockPrepends(s, path) ==
  LET c == textCapture(s, path.position, <<>>)
  IN  IF Len(call("trim", <<c.text>>)) = 0 THEN NoPath(c.pos)
      ELSE [ok |-> TRUE,
            path |-> ParsePath(<<TextBlock(call("trim", <<c.text>>))>> \o path.blocks,
                               path.score, path.repairs, c.pos),
            pos |-> c.pos]

\* parseTextBlock: [ok, path, pos]
parseTextBlock(s, path) ==
  LET c == textCapture(s, path.position, <<>>)
  IN  IF Len(call("trim", <<c.text>>)) = 0 THEN NoPath(c.pos)
      ELSE [ok |-> TRUE,
            path |-> ParsePath(Append(path.blocks, TextBlock(call("trim", <<c.text>>))),
                               path.score, path.repairs, c.pos),
            pos |-> c.pos]

(***************************************************************************)
(* preprocess, parseRaw and parseJson                                      *)
(***************************************************************************)
\* text.replace(/\r\n/g, "\n").replace(/\r/g, "\n")
RECURSIVE preprocess(_)
preprocess(text) ==
  IF text = <<>> THEN <<>>
  ELSE IF Head(text) = "\r" /\ Len(text) > 1 /\ text[2] = "\n"
    THEN <<"\n">> \o preprocess(Tail(Tail(text)))
  ELSE IF Head(text) = "\r" THEN <<"\n">> \o preprocess(Tail(text))
  ELSE <<Head(text)>> \o preprocess(Tail(text))

\* a variant whose raw is the repaired text
ObjectBlockRepairedAsRaw(raw, repaired) ==
  [type |-> "object", object |-> repaired.object, raw |-> repaired.repairedText,
   repairedText |-> repaired.repairedText, warnings |-> repaired.warnings,
   repairs |-> repaired.repairs, score |-> repaired.score,
   winningMode |-> repaired.mode]

\* the ObjectBlock parseRaw makes of a candidate's text and its RepairResult
ObjectBlock(raw, repaired) ==
  [type |-> "object", object |-> repaired.object, raw |-> raw,
   repairedText |-> repaired.repairedText, warnings |-> repaired.warnings,
   repairs |-> repaired.repairs, score |-> repaired.score,
   winningMode |-> repaired.mode]

\* rawBlocks.filter(block => block.type === "object")
objectBlocks(rawBlocks) == SelectSeq(rawBlocks, LAMBDA block : block.type = "object")

\* a variant that returns an array even for a single object
projectJsonAlwaysArray(rawBlocks) ==
  LET objs == objectBlocks(rawBlocks)
  IN  IF Len(objs) = 0 THEN JNull
      ELSE JArr([i \in DOMAIN objs |-> objs[i].object])

\* the value parseJson returns for the blocks of parseRaw
projectJson(rawBlocks) ==
  LET objs == objectBlocks(rawBlocks)
  IN  IF Len(objs) = 0 THEN JNull
      ELSE IF Len(objs) = 1 THEN objs[1].object
      ELSE JArr([i \in DOMAIN objs |-> objs[i].object])

\* the functions and methods that call dispatches to
call(f, a) ==
  CASE f = "nextTokenCandidates" -> nextTokenCandidates(a[1], a[2])
    [] f = "looksLikeObjectStart" -> looksLikeObjectStart(a[1], a[2])
    [] f = "bestToken" -> bestToken(a[1], a[2])
    [] f = "skipWhitespace" -> skipWhitespace(a[1], a[2])
    [] f = "jsonValue" -> jsonValue(a[1], a[2])
    [] f = "parseTextBlock" -> parseTextBlock(a[1], a[2])
    [] f = "looksLikeYAMLKey" -> looksLikeYAMLKey(a[1], a[2])
    [] f = "tryParseJSONObject" -> tryParseJSONObject(a[1], a[2], a[3])
    [] f = "tryParseYAMLObject" -> tryParseYAMLObject(a[1], a[2], a[3])
    [] f = "tryParseFencedJSON" -> tryParseFencedJSON(a[1], a[2], a[3])
    [] f = "tryParseFencedYAML" -> tryParseFencedYAML(a[1], a[2], a[3])
    [] f = "jsonMembers" -> jsonMembers(a[1], a[2], a[3])
    [] f = "tryParseObjectBlock" -> tryParseObjectBlock(a[1], a[2])
    [] f = "JSONparse" -> JSONparse(a[1])
    [] f = "trim" -> trim(a[1])
    [] f = "objectLoop" -> objectLoop(a[1], a[2], a[3], a[4])
    [] f = "jsonNumber" -> jsonNumber(a[1], a[2])
    [] f = "parseValue" -> parseValue(a[1], a[2])
    [] f = "parseObject" -> parseObject(a[1], a[2])
    [] f = "parseArray" -> parseArray(a[1], a[2])
    [] f = "parseKey" -> parseKey(a[1], a[2])
    [] f = "parseKeyValue" -> parseKeyValue(a[1], a[2])
    [] f = "skipComment" -> skipComment(a[1], a[2])
    [] f = "JSONstringify" -> JSONstringify(a[1])
    [] f = "reconstructJSON" -> reconstructJSON(a[1])
    [] f = "reconstructYAML" -> reconstructYAML(a[1])
    [] f = "repairObjectCandidate" -> repairObjectCandidate(a[1])
    [] f = "yamlParseValue" -> yamlParseValue(a[1], a[2])
    [] f = "yamlParseKeyValue" -> yamlParseKeyValue(a[1], a[2])
    [] f = "parseInlineJSON" -> parseInlineJSON(a[1], a[2])
    [] f = "jsonElements" -> jsonElements(a[1], a[2], a[3])
    [] f = "stringifyValue" -> stringifyValue(a[1], a[2])
    [] f = "stringifyItems" -> stringifyItems(a[1], a[2], a[3], a[4])
    [] f = "parseYAMLDocument" -> parseYAMLDocument(a[1])
    [] f = "yamlLoop" -> yamlLoop(a[1], a[2])
    [] f = "looksLikeYAMLContinuation" -> looksLikeYAMLContinuation(a[1], a[2])
    [] f = "arrayLoop" -> arrayLoop(a[1], a[2], a[3], a[4])

(***************************************************************************)
(* The inputs                                                              *)
(*                                                                         *)
(* An input is the concatenation of at most MaxFrags fragments (single     *)
(* punctuation marks, a word, a quoted string, white space) or of          *)
(* at most MaxParts parts (whole JSON texts, sloppy objects, YAML, fenced  *)
(* blocks, narration).                                                     *)
(***************************************************************************)
MaxFrags == 3

MaxParts == 2

Fragments ==
  << <<"{">>, <<"}">>, <<"[">>, <<"]">>, <<":">>, <<",">>, <<" ">>, <<"\n">>,
     <<"a">>, <<"\"", "b", "\"">>, <<"-">> >>

Parts ==
  << <<"{", "\"", "a", "\"", ":", "1", "}">>,
     <<"{", "\"", "a", "\"", ":", "\"", "x", "\\", "n", "y", "\"", "}">>,
     <<"[", "1", "e", "5", ",", "t", "r", "u", "e", "]">>,
     <<"{", "a", ":", "1", " ", "b", ":", "2", "}">>,
     <<"k", ":", " ", "v", "\n", "n", ":", " ", "4">>,
     <<"H", "i", " ">>,
     <<"\r", "\n">>,
     <<"BQ", "BQ", "BQ", "j", "s", "o", "n", "\n", "{", "a", ":", "1", "}", "\n",
       "BQ", "BQ", "BQ">>,
     <<"BQ", "BQ", "BQ", "y", "a", "m", "l", "\n", "k", ":", " ", "v", "\n",
       "BQ", "BQ", "BQ">>,
     <<"{", "a", " ">> >>

RECURSIVE concat(_, _)
concat(pieces, choice) ==
  IF choice = <<>> THEN <<>>
  ELSE pieces[Head(choice)] \o concat(pieces, Tail(choice))

Inputs ==
  {concat(Fragments, c) : c \in UNION {[1..n -> DOMAIN Fragments] : n \in 0..MaxFrags}}
    \cup
  {concat(Parts, c) : c \in UNION {[1..n -> DOMAIN Parts] : n \in 0..MaxParts}}

(***************************************************************************)
(* Families of inputs                                                      *)
(*                                                                         *)
(* A family is a set of descriptions; the text of a description is the     *)
(* input, and the description says what the input is made of.              *)
(***************************************************************************)
\* the texts of a sequence of texts, one after the other, sep between two
RECURSIVE joinWith(_, _)
joinWith(texts, sep) ==
  IF texts = <<>> THEN <<>>
  ELSE IF Len(texts) = 1 THEN texts[1]
  ELSE texts[1] \o sep \o joinWith(Tail(texts), sep)

\* the key of the i-th pair of an object
KeyNames == << <<"a">>, <<"b">>, <<"c">>, <<"d">> >>

\* scalar values as they are written and as a strict decoder reads them
ScalarTexts ==
  << <<"1">>, <<"\"", "x", "\"">>, <<"t", "r", "u", "e">>, <<"n", "u", "l", "l">> >>

ScalarValues == << JNum(1, 0), JStr(<<"x">>), JBool(TRUE), JNull >>

MaxPairs == 2

\* objects of 1..MaxPairs pairs with no comma: pair i has key KeyNames[i],
\* quoted or bare, and a scalar value; colon is what stands between a key
\* and its value, gap the white space between two pairs
SpacedObjects ==
  UNION {[n : {n}, quoted : [1..n -> BOOLEAN], val : [1..n -> DOMAIN ScalarTexts],
          colon : {<<":">>, <<":", " ">>},
          gap : {<<" ">>, <<"\n", " ">>}] : n \in 1..MaxPairs}

spacedObjectText(d) ==
  <<"{">> \o
  joinWith([i \in 1..d.n |->
              (IF d.quoted[i] THEN <<"\"">> \o KeyNames[i] \o <<"\"">> ELSE KeyNames[i])
                \o d.colon \o ScalarTexts[d.val[i]]], d.gap)
  \o <<"}">>

spacedObjectValue(d) ==
  JObj([i \in 1..d.n |-> [k |-> KeyNames[i], w |-> ScalarValues[d.val[i]]]])

\* the bare-word value of the i-th pair of an object
ValueWords == << <<"x">>, <<"y">>, <<"z">>, <<"w">> >>

MaxDepth == 1

\* objects of bare keys and bare-word values with no quotes and no commas:
\* n pairs a level; below depth levels of nesting every value is a word, and
\* at a level above the value of pair number at is the object one level down
BareObjects ==
  {d \in [depth : 0..MaxDepth, n : 1..MaxPairs, at : 1..MaxPairs] : d.at <= d.n}

RECURSIVE bareObjectText(_)
bareObjectText(d) ==
  <<"{">> \o
  joinWith([i \in 1..d.n |->
              KeyNames[i] \o <<":">> \o
                (IF d.depth > 0 /\ i = d.at
                   THEN bareObjectText([d EXCEPT !.depth = d.depth - 1])
                   ELSE ValueWords[i])], <<" ">>)
  \o <<"}">>

RECURSIVE bareObjectValue(_)
bareObjectValue(d) ==
  JObj([i \in 1..d.n |->
          [k |-> KeyNames[i],
           w |-> IF d.depth > 0 /\ i = d.at
                   THEN bareObjectValue([d EXCEPT !.depth = d.depth - 1])
                   ELSE JStr(ValueWords[i])]])

\* the words of a line or of a key of several words
LineWords == << <<"u">>, <<"v">>, <<"w">>, <<"t">> >>

MaxWords == 2

\* brace-delimited spans with a line of 1..MaxWords bare words and no colon:
\* before and after say whether a line with a pair stands before and after
\* it, bare whether the values of the pairs are bare words or numbers
BareLineObjects ==
  [words : 1..MaxWords, before : BOOLEAN, after : BOOLEAN, bare : BOOLEAN]

bareLineKey(d) == joinWith([i \in 1..d.words |-> LineWords[i]], <<" ">>)

bareLineText(d) ==
  <<"{", " ">>
  \o (IF d.before
        THEN KeyNames[1] \o <<":", " ">> \o (IF d.bare THEN ValueWords[1] ELSE <<"1">>)
               \o <<"\n", " ">>
        ELSE <<>>)
  \o bareLineKey(d)
  \o (IF d.after
        THEN <<"\n", " ">> \o KeyNames[2] \o <<":", " ">>
               \o (IF d.bare THEN ValueWords[2] ELSE <<"2">>)
        ELSE <<>>)
  \o <<" ", "}">>

bareLineValue(d) ==
  JObj((IF d.before
          THEN <<[k |-> KeyNames[1], w |-> IF d.bare THEN JStr(ValueWords[1]) ELSE JNum(1, 0)]>>
          ELSE <<>>)
       \o <<[k |-> bareLineKey(d), w |-> JNull]>>
       \o (IF d.after
             THEN <<[k |-> KeyNames[2], w |-> IF d.bare THEN JStr(ValueWords[2]) ELSE JNum(2, 0)]>>
             ELSE <<>>))

\* objects with a bare key of 2..MaxWords + 1 words: lead says whether the
\* pair "a":1 and a comma stand before it, colon is what stands between the
\* key and its value, bare whether the value is the bare word yes or 1
MultiwordKeyObjects ==
  [words : 2..(MaxWords + 1), lead : BOOLEAN, colon : {<<":">>, <<":", " ">>},
   bare : BOOLEAN]

multiwordKeyText(d) ==
  <<"{">>
  \o (IF d.lead THEN <<"\"">> \o KeyNames[1] \o <<"\"", ":", "1", ",">> ELSE <<>>)
  \o bareLineKey(d) \o d.colon
  \o (IF d.bare THEN <<"y", "e", "s">> ELSE <<"1">>)
  \o <<"}">>

multiwordKeyValue(d) ==
  JObj((IF d.lead THEN <<[k |-> KeyNames[1], w |-> JNum(1, 0)]>> ELSE <<>>)
       \o <<[k |-> bareLineKey(d),
              w |-> IF d.bare THEN JStr(<<"y", "e", "s">>) ELSE JNum(1, 0)]>>)

\* balanced brace-delimited objects as they are written and as they decode
ObjectTexts ==
  << <<"{", "\"", "a", "\"", ":", "1", "}">>,
     <<"{", "\"", "b", "\"", ":", "\"", "x", "\"", "}">>,
     <<"{", "\"", "c", "\"", ":", "{", "\"", "d", "\"", ":", "3", "}", "}">>,
     <<"{", "}">>,
     <<"{", "a", ":", "1", " ", "b", ":", "2", "}">> >>

ObjectValues ==
  << JObj(<<[k |-> <<"a">>, w |-> JNum(1, 0)]>>),
     JObj(<<[k |-> <<"b">>, w |-> JStr(<<"x">>)]>>),
     JObj(<<[k |-> <<"c">>, w |-> JObj(<<[k |-> <<"d">>, w |-> JNum(3, 0)]>>)]>>),
     JObj(<<>>),
     JObj(<<[k |-> <<"a">>, w |-> JNum(1, 0)], [k |-> <<"b">>, w |-> JNum(2, 0)]>>) >>

MaxObjects == 2

\* 2..MaxObjects objects one after the other with nothing between them
BackToBackObjects == UNION {[1..n -> DOMAIN ObjectTexts] : n \in 2..MaxObjects}

backToBackText(d) == concat(ObjectTexts, d)

\* where the i-th object of d starts in backToBackText(d)
RECURSIVE objectStart(_, _)
objectStart(d, i) ==
  IF i = 1 THEN 0 ELSE objectStart(d, i - 1) + Len(ObjectTexts[d[i - 1]])

\* arrays with a token in element position that parseValue leaves in place
StrayArrays == {<<"[", "-">>, <<"[", ":", "]">>}

MaxItems == 2

\* YAML flat lists: the line k: and then 1..MaxItems lines - item, line i
\* indented by d[i] (nothing, a space or three spaces) and its item the bare
\* word ValueWords[i]
FlatLists ==
  UNION {[1..n -> {<<>>, <<" ">>, <<" ", " ", " ">>}] : n \in 1..MaxItems}

flatListText(d) ==
  <<"k", ":">>
  \o concat([i \in DOMAIN d |-> <<"\n">> \o d[i] \o <<"-", " ">> \o ValueWords[i]],
             [i \in DOMAIN d |-> i])

flatListValue(d) ==
  JObj(<<[k |-> <<"k">>, w |-> JArr([i \in DOMAIN d |-> JStr(ValueWords[i])])]>>)

MaxNarration == 3

\* what narration is put together from: a word, white space, an apostrophe,
\* a double quote and punctuation that opens nothing
NarrationFragments ==
  << <<"a">>, <<" ">>, <<"'">>, <<"\"">>, <<":">>, <<"-">>, <<"\n">>, <<"}">>,
     <<",">> >>

\* the line that starts at position p begins, after spaces and tabs, with a
\* bare word or a quoted string, and a colon follows it
keyLineAt(s, p) ==
  LET q == scanWhile(s, p, {" ", "\t"})
      c == CharAt(s, q)
  IN  \/ /\ c \in WordStart
         /\ CharAt(s, scanWhile(s, q, WordChar)) = ":"
      \/ /\ c \in {"\"", "'"}
         /\ \E e \in (q + 1)..(Len(s) - 1) :
              /\ CharAt(s, e) = c
              /\ \A i \in (q + 1)..(e - 1) : CharAt(s, i) # c
              /\ CharAt(s, e + 1) = ":"

\* s has no fence, no { or [ and no line that begins with a key and a colon
pureNarration(s) ==
  /\ \A i \in DOMAIN s : s[i] \notin {"{", "[", "BQ"}
  /\ \A p \in 0..Len(s) : (p = 0 \/ CharAt(s, p - 1) \in {"\n", "\r"}) => ~keyLineAt(s, p)

Narrations ==
  {t \in {concat(NarrationFragments, c) :
            c \in UNION {[1..n -> DOMAIN NarrationFragments] : n \in 0..MaxNarration}} :
     pureNarration(t)}

\* a run of white space before an object: the run stands at the start of
\* the input (first = 0) or after the object ObjectTexts[first]
WhitespaceGaps ==
  [gap : {<<" ">>, <<"\n">>, <<"\t">>, <<"\n", " ", " ">>},
   first : 0..Len(ObjectTexts), second : DOMAIN ObjectTexts]

gapFirstText(d) == IF d.first = 0 THEN <<>> ELSE ObjectTexts[d.first]

whitespaceGapText(d) == gapFirstText(d) \o d.gap \o ObjectTexts[d.second]

\* narration with an opener that nothing closes: before, opener, after
UnbalancedOpeners ==
  [before : {<<>>, <<"a">>, <<"a", " ">>}, opener : {<<"{">>, <<"[">>},
   after : {<<>>, <<"a">>, <<" ", "a">>, <<"a", " ", "a">>}]

unbalancedOpenerText(d) == d.before \o d.opener \o d.after

\* the calls of the families: [entry, input]
\* objects of one pair whose bare-word value is followed by a # comment:
\* gap is what stands between the value and the #, comment the text after
\* the #, and tail what ends the object, on the line of the comment or on
\* the next one
CommentedValues ==
  [key : {KeyNames[1], KeyNames[2]}, val : {ValueWords[1], ValueWords[2]},
   gap : {<<>>, <<" ">>, <<" ", " ">>},
   comment : {<<>>, <<" ", "c">>},
   tail : {<<"}">>, <<"\n", "}">>}]

commentedValueText(d) ==
  <<"{">> \o d.key \o <<":", " ">> \o d.val \o d.gap \o <<"#">> \o d.comment \o d.tail

commentedValueValue(d) == JObj(<<[k |-> d.key, w |-> JStr(d.val)]>>)

\* YAML documents of a key p with no value on its line, followed by
\* 1..MaxPairs lines k: v, each after indent
NestedMappings == [n : 1..MaxPairs, indent : {<<" ">>, <<" ", " ">>}]

nestedMappingText(d) ==
  <<"p", ":">> \o
  concat([i \in 1..d.n |->
            <<"\n">> \o d.indent \o KeyNames[i] \o <<":", " ">> \o ValueWords[i]],
         [i \in 1..d.n |-> i])

nestedMappingValue(d) ==
  JObj(<<[k |-> <<"p">>,
          w |-> JObj([i \in 1..d.n |-> [k |-> KeyNames[i], w |-> JStr(ValueWords[i])]])]>>)

Cases ==
  {[entry |-> "repairObjectCandidate", input |-> nestedMappingText(d)] :
     d \in NestedMappings}
    \cup
  {[entry |-> "repairObjectCandidate", input |-> commentedValueText(d)] :
     d \in CommentedValues}
    \cup
  {[entry |-> "repairObjectCandidate", input |-> spacedObjectText(d)] : d \in SpacedObjects}
    \cup
  {[entry |-> "parseRaw", input |-> bareObjectText(d)] : d \in BareObjects}
    \cup
  {[entry |-> "repairObjectCandidate", input |-> bareLineText(d)] : d \in BareLineObjects}
    \cup
  {[entry |-> "repairObjectCandidate", input |-> multiwordKeyText(d)] :
     d \in MultiwordKeyObjects}
    \cup
  {[entry |-> "parseRaw", input |-> backToBackText(d)] : d \in BackToBackObjects}
    \cup
  [entry : {"parseRaw", "repairObjectCandidate"}, input : StrayArrays]
    \cup
  {[entry |-> e, input |-> flatListText(d)] :
     e \in {"parseRaw", "repairObjectCandidate"}, d \in FlatLists}
    \cup
  [entry : {"parseRaw"}, input : Narrations]
    \cup
  {[entry |-> "parseRaw", input |-> whitespaceGapText(d)] : d \in WhitespaceGaps}
    \cup
  {[entry |-> "parseRaw", input |-> unbalancedOpenerText(d)] : d \in UnbalancedOpeners}

(***************************************************************************)
(* The program as a state machine                                          *)
(*                                                                         *)
(* entry is the function that was called on input: parseRaw, which both    *)
(* parseRawOutput and parseJson call first, or repairObjectCandidate.      *)
(* parseRaw runs preprocess, then the iterations of parseDocument (path    *)
(* and the tokenizer's own cursor tokpos), then the loop over the          *)
(* segmented blocks (idx blocks done, result the RawBlocks).  When it has  *)
(* returned, result is what parseRawOutput returns, and parseJson goes on  *)
(* to project it (pc = "projected", json its value).  spans and origin are *)
(* history variables: spans[i] is the interval of the buffer consumed for  *)
(* segmented block i, origin[k] the index of the segmented block that      *)
(* RawBlock k was made from.  pc = "hung" stands for a call that never     *)
(* returns.                                                                *)
(***************************************************************************)
VARIABLES entry, input, pc, cleaned, path, tokpos, spans, idx, result, origin,
          json, repaired

vars == <<entry, input, pc, cleaned, path, tokpos, spans, idx, result, origin,
          json, repaired>>

NoResult == RepairResult(FALSE, JNull, <<>>, <<>>, <<>>, 0, "", FALSE)

Init ==
  /\ entry \in {"parseRaw", "repairObjectCandidate"}
  /\ input \in Inputs
  /\ pc = "called"
  /\ cleaned = <<>>
  /\ path = ParsePath(<<>>, 0, <<>>, 0)
  /\ tokpos = 0
  /\ spans = <<>>
  /\ idx = 0
  /\ result = <<>>
  /\ origin = <<>>
  /\ json = JNull
  /\ repaired = NoResult

\* parseRaw, step 1, and the construction of the SoftParser by segment
Preprocess ==
  /\ pc = "called"
  /\ entry = "parseRaw"
  /\ cleaned' = preprocess(input)
  /\ path' = ParsePath(<<>>, 0, <<>>, 0)
  /\ tokpos' = 0
  /\ pc' = "segmenting"
  /\ UNCHANGED <<entry, input, spans, idx, result, origin, json, repaired>>

\* an iteration of parseDocument in which tryParseObjectBlock returns a path
ObjectBlockStep ==
  /\ pc = "segmenting"
  /\ ~isEOF(cleaned, tokpos)
  /\ LET objectResult == call("tryParseObjectBlock", <<cleaned, path>>)
     IN  /\ objectResult.ok
         /\ path' = objectResult.path
         /\ tokpos' = objectResult.pos
         /\ spans' = Append(spans, [start |-> path.position,
                                    end |-> objectResult.path.position])
  /\ UNCHANGED <<entry, input, pc, cleaned, idx, result, origin, json, repaired>>

\* an iteration of parseDocument in which parseTextBlock returns a path
TextBlockStep ==
  /\ pc = "segmenting"
  /\ ~isEOF(cleaned, tokpos)
  /\ ~call("tryParseObjectBlock", <<cleaned, path>>).ok
  /\ LET textResult == call("parseTextBlock", <<cleaned, path>>)
     IN  /\ textResult.ok
         /\ path' = textResult.path
         /\ tokpos' = textResult.pos
         /\ spans' = Append(spans, [start |-> path.position,
                                    end |-> textResult.path.position])
  /\ UNCHANGED <<entry, input, pc, cleaned, idx, result, origin, json, repaired>>

\* an iteration of parseDocument in which both return null: skip one character
SkipCharacter ==
  /\ pc = "segmenting"
  /\ ~isEOF(cleaned, tokpos)
  /\ ~call("tryParseObjectBlock", <<cleaned, path>>).ok
  /\ LET textResult == call("parseTextBlock", <<cleaned, path>>)
     IN  /\ ~textResult.ok
         /\ tokpos' = textResult.pos + 1
         /\ path' = [path EXCEPT !.position = textResult.pos + 1]
  /\ UNCHANGED <<entry, input, pc, cleaned, spans, idx, result, origin, json,
                 repaired>>

\* parseDocument leaves its loop and segment returns the blocks
SegmentReturn ==
  /\ pc = "segmenting"
  /\ isEOF(cleaned, tokpos)
  /\ pc' = "repairing"
  /\ UNCHANGED <<entry, input, cleaned, path, tokpos, spans, idx, result, origin,
                 json, repaired>>

\* parseRaw, step 3, on a text block
EmitText ==
  /\ pc = "repairing"
  /\ idx < Len(path.blocks)
  /\ path.blocks[idx + 1].type = "text"
  /\ result' = Append(result, path.blocks[idx + 1])
  /\ origin' = Append(origin, idx + 1)
  /\ idx' = idx + 1
  /\ UNCHANGED <<entry, input, pc, cleaned, path, tokpos, spans, json, repaired>>

\* parseRaw, step 3, on an object-candidate whose repair returns
RepairCandidate ==
  /\ pc = "repairing"
  /\ idx < Len(path.blocks)
  /\ path.blocks[idx + 1].type = "object-candidate"
  /\ LET block == path.blocks[idx + 1]
         r     == call("repairObjectCandidate", <<block.raw>>)
     IN  /\ ~r.hang
         /\ repaired' = r
         /\ result' = IF r.success THEN Append(result, ObjectBlock(block.raw, r))
                      ELSE result
         /\ origin' = IF r.success THEN Append(origin, idx + 1) ELSE origin
  /\ idx' = idx + 1
  /\ UNCHANGED <<entry, input, pc, cleaned, path, tokpos, spans, json>>

\* parseRaw, step 3, on an object-candidate whose repair never returns
RepairCandidateHangs ==
  /\ pc = "repairing"
  /\ idx < Len(path.blocks)
  /\ path.blocks[idx + 1].type = "object-candidate"
  /\ call("repairObjectCandidate", <<path.blocks[idx + 1].raw>>).hang
  /\ pc' = "hung"
  /\ UNCHANGED <<entry, input, cleaned, path, tokpos, spans, idx, result, origin,
                 json, repaired>>

\* parseRaw returns result, and parseRawOutput returns it as it is
ReturnBlocks ==
  /\ pc = "repairing"
  /\ idx = Len(path.blocks)
  /\ pc' = "returned"
  /\ UNCHANGED <<entry, input, cleaned, path, tokpos, spans, idx, result, origin,
                 json, repaired>>

\* parseJson projects the blocks that parseRaw returned
ProjectJson ==
  /\ pc = "returned"
  /\ entry = "parseRaw"
  /\ json' = projectJson(result)
  /\ pc' = "projected"
  /\ UNCHANGED <<entry, input, cleaned, path, tokpos, spans, idx, result, origin,
                 repaired>>

\* repairObjectCandidate called on the input and returning
RepairDirect ==
  /\ pc = "called"
  /\ entry = "repairObjectCandidate"
  /\ LET r == call("repairObjectCandidate", <<input>>)
     IN  /\ ~r.hang
         /\ repaired' = r
  /\ pc' = "returned"
  /\ UNCHANGED <<entry, input, cleaned, path, tokpos, spans, idx, result, origin,
                 json>>

\* repairObjectCandidate called on the input and never returning
RepairDirectHangs ==
  /\ pc = "called"
  /\ entry = "repairObjectCandidate"
  /\ call("repairObjectCandidate", <<input>>).hang
  /\ pc' = "hung"
  /\ UNCHANGED <<entry, input, cleaned, path, tokpos, spans, idx, result, origin,
                 json, repaired>>

Next ==
  \/ Preprocess
  \/ ObjectBlockStep
  \/ TextBlockStep
  \/ SkipCharacter
  \/ SegmentReturn
  \/ EmitText
  \/ RepairCandidate
  \/ RepairCandidateHangs
  \/ ReturnBlocks
  \/ ProjectJson
  \/ RepairDirect
  \/ RepairDirectHangs

Spec == Init /\ [][Next]_vars

\* the program called on the inputs of the families
CasesInit ==
  /\ \E c \in Cases : entry = c.entry /\ input = c.input
  /\ pc = "called"
  /\ cleaned = <<>>
  /\ path = ParsePath(<<>>, 0, <<>>, 0)
  /\ tokpos = 0
  /\ spans = <<>>
  /\ idx = 0
  /\ result = <<>>
  /\ origin = <<>>
  /\ json = JNull
  /\ repaired = NoResult

CasesSpec == CasesInit /\ [][Next]_vars

(***************************************************************************)
(* The SoftTokenizer on its own                                            *)
(*                                                                         *)
(* entry = "SoftTokenizer": a tokenizer constructed on input, tokpos its   *)
(* cursor.  Its user moves the cursor with seek and consumes with          *)
(* consumeBest and consumeRawChar.  spans holds the extent of the token    *)
(* the last consumeBest returned, and is empty when it returned null.      *)
(***************************************************************************)
MaxLexFrags == 2

LexFragments ==
  << <<"{">>, <<":">>, <<"-">>, <<" ">>, <<"\n">>, <<"a">>, <<"\"", "b", "\"">>,
     <<"\"">>, <<"'">>, <<"1">>, <<".">>, <<"t", "r", "u", "e">>,
     <<"BQ", "BQ", "BQ">>, <<"#">>, <<"LDQ">>, <<"\\">>,
     <<"\"", "\\", "n", "\"">> >>

LexInputs ==
  {concat(LexFragments, c) :
     c \in UNION {[1..n -> DOMAIN LexFragments] : n \in 0..MaxLexFrags}}

TokenizerInit ==
  /\ entry = "SoftTokenizer"
  /\ input \in LexInputs
  /\ pc = "constructed"
  /\ cleaned = <<>>
  /\ path = ParsePath(<<>>, 0, <<>>, 0)
  /\ tokpos = 0
  /\ spans = <<>>
  /\ idx = 0
  /\ result = <<>>
  /\ origin = <<>>
  /\ json = JNull
  /\ repaired = NoResult

\* seek(pos), to a position in the input or one past its end
Seek ==
  /\ entry = "SoftTokenizer"
  /\ \E p \in 0..(Len(input) + 1) : tokpos' = p
  /\ pc' = "sought"
  /\ spans' = <<>>
  /\ UNCHANGED <<entry, input, cleaned, path, idx, result, origin, json, repaired>>

\* consumeBest where there is a candidate
ConsumeBest ==
  /\ entry = "SoftTokenizer"
  /\ call("nextTokenCandidates", <<input, tokpos>>) # <<>>
  /\ tokpos' = consumeBest(input, tokpos)
  /\ spans' = <<[start |-> tokpos, end |-> consumeBest(input, tokpos)]>>
  /\ pc' = "consumed"
  /\ UNCHANGED <<entry, input, cleaned, path, idx, result, origin, json, repaired>>

\* consumeBest where there is none: it returns null
ConsumeBestNull ==
  /\ entry = "SoftTokenizer"
  /\ call("nextTokenCandidates", <<input, tokpos>>) = <<>>
  /\ pc' = "consumed"
  /\ spans' = <<>>
  /\ UNCHANGED <<entry, input, cleaned, path, tokpos, idx, result, origin, json,
                 repaired>>

\* consumeRawChar
ConsumeRawChar ==
  /\ entry = "SoftTokenizer"
  /\ tokpos' = IF isEOF(input, tokpos) THEN tokpos ELSE tokpos + 1
  /\ pc' = "consumed raw"
  /\ spans' = <<>>
  /\ UNCHANGED <<entry, input, cleaned, path, idx, result, origin, json, repaired>>

TokenizerNext ==
  \/ Seek
  \/ ConsumeBest
  \/ ConsumeBestNull
  \/ ConsumeRawChar

TokenizerSpec == TokenizerInit /\ [][TokenizerNext]_vars

(***************************************************************************)
(* Properties                                                              *)
(***************************************************************************)
\* x is the text of a JSON object or array for a strict decoder
isJsonContainerText(x) ==
  /\ JSONparse(x).ok
  /\ JSONparse(x).v.t \in {"obj", "arr"}

\* a is b with some characters left out
RECURSIVE isSubsequence(_, _)
isSubsequence(a, b) ==
  IF a = <<>> THEN TRUE
  ELSE IF b = <<>> THEN FALSE
  ELSE IF Head(a) = Head(b) THEN isSubsequence(Tail(a), Tail(b))
  ELSE isSubsequence(a, Tail(b))

\* a is b[from..to) for some from and to
isSubstring(a, b) ==
  \E from \in 0..Len(b) : \E to \in from..Len(b) : substring(b, from, to) = a

\* the JSON reconstruction of raw completed and its text decodes
jsonWouldSucceed(raw) ==
  LET j == reconstructJSON(raw)
  IN  ~j.hang /\ j.success /\ j.json # <<>> /\ JSONparse(j.json).ok

\* the YAML reconstruction of raw completed and its text decodes
yamlWouldSucceed(raw) ==
  LET y == reconstructYAML(raw)
  IN  ~y.hang /\ y.success /\ y.json # <<>> /\ JSONparse(y.json).ok

\* C1: when the whole input is the text of a valid JSON object or array,
\* parseRawOutput returns exactly one block, an ObjectBlock, and parseJson
\* returns a value deep-equal to what a strict decoder makes of the input.
C1_ValidJsonDecodesAsIs ==
  (pc = "projected" /\ isJsonContainerText(input)) =>
    /\ Len(result) = 1
    /\ result[1].type = "object"
    /\ deepEqual(json, JSONparse(input).v)

\* C2: parseJson returns null when parseRaw returned no ObjectBlock, the
\* object of the only ObjectBlock when there is one, and the array of the
\* objects of all ObjectBlocks, in the order of the blocks, otherwise.
C2_ProjectionLaw ==
  pc = "projected" =>
    LET objs == SelectSeq(result, LAMBDA b : b.type = "object")
    IN  /\ Len(objs) = 0 => json = JNull
        /\ Len(objs) = 1 => json = objs[1].object
        /\ Len(objs) > 1 =>
             /\ json.t = "arr"
             /\ Len(json.a) = Len(objs)
             /\ \A i \in DOMAIN objs : json.a[i] = objs[i].object

\* parseJson has returned an array made of the objects of two or more blocks
C2_SeveralObjects ==
  /\ pc = "projected"
  /\ Len(SelectSeq(result, LAMBDA b : b.type = "object")) > 1
  /\ json.t = "arr"

\* C3: repairObjectCandidate returns on every span: no iteration of the
\* OBJECT loop, the ARRAY loop or the YAML document loop leaves the cursor
\* where it was without returning.
C3_RepairTerminates ==
  entry = "repairObjectCandidate" => pc # "hung"

\* C4: repairObjectCandidate of the text of a valid JSON object or array
\* succeeds in mode json-ish with score 0 and no repairs, and its object is
\* deep-equal to what a strict decoder makes of the text.
C4_WellFormedInputUnchanged ==
  (pc = "returned" /\ entry = "repairObjectCandidate"
     /\ isJsonContainerText(input)) =>
    /\ repaired.success
    /\ repaired.mode = "json-ish"
    /\ repaired.score = 0
    /\ repaired.repairs = <<>>
    /\ deepEqual(repaired.object, JSONparse(input).v)

\* C5: the blocks of segment are made from intervals of the buffer that lie
\* one after the other, each starting where the one before ended or later:
\* a TextBlock is its interval trimmed, a candidate is made of characters of
\* its interval in their order, and parseRaw keeps the blocks in that order.
C5_OrderPreservation ==
  entry = "parseRaw" =>
    /\ Len(spans) = Len(path.blocks)
    /\ \A i \in DOMAIN spans :
         /\ 0 <= spans[i].start
         /\ spans[i].start < spans[i].end
         /\ spans[i].end <= Len(cleaned)
         /\ LET source == substring(cleaned, spans[i].start, spans[i].end)
            IN  IF path.blocks[i].type = "text"
                  THEN path.blocks[i].text = trim(source)
                  ELSE isSubsequence(path.blocks[i].raw, source)
    /\ \A i \in DOMAIN spans : \A j \in DOMAIN spans :
         i < j => spans[i].end <= spans[j].start
    /\ \A k \in DOMAIN origin : \A l \in DOMAIN origin :
         k < l => origin[k] < origin[l]

\* parseRaw has returned narration and objects made from three or more
\* intervals of the buffer
C5_SeveralBlocks ==
  /\ pc = "projected"
  /\ Len(path.blocks) >= 3
  /\ Len(result) >= 3
  /\ \E i \in DOMAIN path.blocks : path.blocks[i].type = "text"
  /\ \E i \in DOMAIN path.blocks : path.blocks[i].type = "object-candidate"

\* C6: neither segment nor parseRaw returns two TextBlocks one after the
\* other.
C6_NoAdjacentTextBlocks ==
  /\ \A i \in DOMAIN path.blocks :
       (i > 1 /\ path.blocks[i].type = "text") => path.blocks[i - 1].type # "text"
  /\ \A k \in DOMAIN result :
       (k > 1 /\ result[k].type = "text") => result[k - 1].type # "text"

\* C7: the raw text of every object-candidate is a contiguous piece of the
\* buffer, taken from the interval the candidate was made from, and the raw
\* field of the ObjectBlock made from it is the same text.
C7_RawSpanVerbatim ==
  /\ \A i \in DOMAIN path.blocks :
       (i \in DOMAIN spans /\ path.blocks[i].type = "object-candidate") =>
         isSubstring(path.blocks[i].raw,
                     substring(cleaned, spans[i].start, spans[i].end))
  /\ \A k \in DOMAIN result :
       result[k].type = "object" => result[k].raw = path.blocks[origin[k]].raw

C9_BestByScore ==
  (pc = "returned" /\ entry = "repairObjectCandidate"
     /\ jsonWouldSucceed(input) /\ yamlWouldSucceed(input)) =>
    /\ repaired.score <= reconstructJSON(input).score
    /\ repaired.score <= reconstructYAML(input).score

count(xs, x) == Cardinality({i \in DOMAIN xs : xs[i] = x})

C12_BareWordsAtAnyDepth ==
  \A d \in BareObjects :
    (pc = "projected" /\ input = bareObjectText(d)) =>
      deepEqual(json, bareObjectValue(d))

\* C13: for a brace-delimited span in which a line consists of bare words
\* only, with no colon, repairObjectCandidate decodes to an object in which
\* that line, its words joined by single spaces, is a key with value null,
\* and the pairs on the lines before and after keep their keys and values.
C13_BareLineIsNullKey ==
  \A d \in BareLineObjects :
    (pc = "returned" /\ entry = "repairObjectCandidate" /\ input = bareLineText(d)) =>
      /\ repaired.success
      /\ deepEqual(repaired.object, bareLineValue(d))

C16_YamlFlatList ==
  \A d \in FlatLists :
    input = flatListText(d) =>
      /\ (pc = "returned" /\ entry = "repairObjectCandidate") =>
           /\ repaired.success
           /\ deepEqual(repaired.object, flatListValue(d))
      /\ pc = "projected" => deepEqual(json, flatListValue(d))

\* C17: for every input with no fence, no { or [ and no line that begins
\* (after spaces and tabs) with a bare word or a quoted string followed by a
\* colon, the segmentation yields exactly one TextBlock equal to the trimmed
\* input, or no block when the input is empty or white space only; no repair
\* is invoked, parseRawOutput returns the same blocks and parseJson null.
C17_PureNarrationStaysText ==
  (entry = "parseRaw" /\ pureNarration(input)) =>
    LET expected == IF trim(input) = <<>> THEN <<>> ELSE <<TextBlock(trim(input))>>
    IN  /\ pc \in {"repairing", "returned", "projected"} => path.blocks = expected
        /\ pc \in {"returned", "projected"} => result = expected /\ repaired = NoResult
        /\ pc = "projected" => json = JNull
        /\ pc # "hung"

\* parseJson has returned null for :'" and the one TextBlock is the input,
\* its leading colon, its apostrophe and its double quote included
C17_ColonApostropheQuote ==
  /\ pc = "projected"
  /\ input = <<":", "'", "\"">>
  /\ result = <<TextBlock(input)>>
  /\ json = JNull

\* C18: when a run of spaces, tabs and newlines stands before an object, at
\* the start of the input or between two objects, the segmentation emits no
\* block for the run and emits the object after it as an ObjectCandidate
\* consumed from its whole extent, opener included.
C18_WhitespaceGapsKeepCandidates ==
  \A d \in WhitespaceGaps :
    (input = whitespaceGapText(d) /\ pc \in {"repairing", "returned", "projected"}) =>
      LET n     == IF d.first = 0 THEN 1 ELSE 2
          start == Len(gapFirstText(d)) + Len(d.gap)
      IN  /\ Len(path.blocks) = n
          /\ \A i \in 1..n : path.blocks[i].type = "object-candidate"
          /\ spans[n] = [start |-> start, end |-> Len(input)]

\* the characters of s that are no white space
nonblank(s) == SelectSeq(s, LAMBDA ch : ch \notin Space)

\* the texts of the blocks one after the other
RECURSIVE blockTexts(_)
blockTexts(blocks) ==
  IF blocks = <<>> THEN <<>>
  ELSE (IF Head(blocks).type = "text" THEN Head(blocks).text ELSE Head(blocks).raw)
         \o blockTexts(Tail(blocks))

\* C19: when the nesting opened by a { or [ never returns to 0 before the
\* end of the input, the segmentation emits no ObjectCandidate for it and
\* keeps the opener as text; no character of the input other than white
\* space is dropped.
C19_UnbalancedOpenerIsText ==
  \A d \in UnbalancedOpeners :
    (input = unbalancedOpenerText(d) /\ pc \in {"repairing", "returned", "projected"}) =>
      /\ \A i \in DOMAIN path.blocks : path.blocks[i].type = "text"
      /\ nonblank(blockTexts(path.blocks)) = nonblank(input)

\* C20: at every position below the length of the buffer nextTokenCandidates
\* returns a non-empty list, and every candidate ends after the position and
\* not after the end of the buffer; at a position at or past the length it
\* returns the empty list; the candidates are in order of score, and
\* consumeBest moves the cursor to the end of the first one.
C20_LexerProgress ==
  entry = "SoftTokenizer" =>
    LET candidates == nextTokenCandidates(input, tokpos)
    IN  /\ tokpos < Len(input) =>
             /\ candidates # <<>>
             /\ \A i \in DOMAIN candidates :
                  /\ candidates[i].endPos > tokpos
                  /\ candidates[i].endPos <= Len(input)
        /\ tokpos >= Len(input) => candidates = <<>>
        /\ \A i, j \in DOMAIN candidates :
             i < j => candidates[i].score <= candidates[j].score
        /\ (pc = "consumed" /\ spans # <<>>) =>
             /\ tokpos = spans[1].end
             /\ tokpos = nextTokenCandidates(input, spans[1].start)[1].endPos
             /\ tokpos > spans[1].start

\* consumeBest has consumed the one character # as a TEXT token
C20_TextFallbackConsumed ==
  /\ entry = "SoftTokenizer"
  /\ pc = "consumed"
  /\ input = <<"#", "a">>
  /\ spans = <<[start |-> 0, end |-> 1]>>
  /\ tokpos = 1

\* C21: segment terminates for every input: each iteration of the loop of
\* parseDocument (an object block, a text block, or the skip of one
\* character) leaves the position of the path greater than it was, and the
\* position never passes the end of the buffer by more than the one
\* character of a skip, so the loop ends after at most length + 1
\* iterations.
C21_SegmentTerminates ==
  /\ [][(pc = "segmenting" /\ pc' = "segmenting") =>
          /\ path'.position > path.position
          /\ path'.position <= Len(cleaned) + 1]_vars
  /\ [](pc = "segmenting" => path.position <= Len(cleaned) + 1)

\* the segmentation has ended after it skipped a character and pushed blocks
C21_SegmentedWithSkip ==
  /\ pc = "repairing"
  /\ Len(spans) >= 2
  /\ spans[2].start > spans[1].end


\* what parseArray or parseObject makes of raw, as reconstructJSON calls it
builtJSON(raw) ==
  LET p0  == call("skipWhitespace", <<raw, 0>>)
      st0 == RState(p0, 0, <<>>, FALSE)
  IN  IF call("nextTokenCandidates", <<raw, p0>>) = <<>>
        THEN [ok |-> FALSE, json |-> <<>>, st |-> st0]
      ELSE IF bestType(raw, p0) = "BRACKET_OPEN" THEN call("parseArray", <<raw, st0>>)
      ELSE call("parseObject", <<raw, st0>>)

\* outside the strings of x, from character i on, a comma is directly
\* followed by a comma or a closer
RECURSIVE danglingComma(_, _, _)
danglingComma(x, i, inString) ==
  IF i >= Len(x) THEN FALSE
  ELSE IF inString
    THEN IF x[i] = "\\" THEN danglingComma(x, i + 2, TRUE)
         ELSE danglingComma(x, i + 1, x[i] # "\"")
  ELSE IF x[i] = "\"" THEN danglingComma(x, i + 1, TRUE)
  ELSE IF x[i] = "," /\ x[i + 1] \in {",", "}", "]"} THEN TRUE
  ELSE danglingComma(x, i + 1, FALSE)

\* C22: the text the JSON reconstructor builds never has, outside its
\* strings, a comma directly followed by a closing brace, a closing bracket
\* or another comma: a comma is written only between two items.
C22_CommasOnlyBetweenItems ==
  (pc = "returned" /\ entry = "repairObjectCandidate") =>
     LET r == builtJSON(input)
     IN  (~r.st.hang /\ r.ok) => ~danglingComma(r.json, 1, FALSE)


\* C23: when the input opens with a brace or a bracket and holds no closer,
\* the JSON reconstruction returns, its text decodes, and each closer it adds
\* is logged and costs 3: the score is at least 3 times the closers logged,
\* of which there is at least one.
C23_MissingCloserSynthesized ==
  (/\ pc \in {"returned", "hung"}
   /\ entry = "repairObjectCandidate"
   /\ input # <<>>
   /\ Head(input) \in {"{", "["}
   /\ count(input, "}") + count(input, "]") = 0) =>
     LET r      == builtJSON(input)
         closed == count(r.st.repairs, "added missing closing brace")
                     + count(r.st.repairs, "added missing closing bracket")
     IN  /\ ~r.st.hang
         /\ r.ok
         /\ JSONparse(r.json).ok
         /\ closed >= 1
         /\ r.st.score >= 3 * closed


\* C24: a successful RepairResult with score 0 and no repair logged comes
\* only from a raw span that a strict decoder accepts, and carries the value
\* the strict decoder gives.
C24_ScoreZeroMeansUntouched ==
  (/\ pc = "returned"
   /\ entry = "repairObjectCandidate"
   /\ repaired.success
   /\ repaired.score = 0
   /\ repaired.repairs = <<>>) =>
     /\ JSONparse(input).ok
     /\ deepEqual(JSONparse(input).v, repaired.object)


\* the maximal run of identifier characters of s that starts at pos, empty
\* when the character at pos cannot start an identifier
identifierRun(s, pos) ==
  IF CharAt(s, pos) \notin WordStart THEN <<>>
  ELSE substring(s, pos, scanWhile(s, pos, WordChar))

Keywords == {<<"t","r","u","e">>, <<"f","a","l","s","e">>, <<"n","u","l","l">>}

\* C25: at every position there is a BOOLEAN or NULL candidate exactly when
\* the maximal identifier run that starts there is true, false or null, and
\* a BARE_WORD candidate, of cost 2 and spanning the whole run, exactly
\* when the run is another identifier; never both, and consumeBest at the
\* start of an identifier run consumes the whole run.
C25_KeywordOrBareWord ==
  entry = "SoftTokenizer" =>
    LET candidates == nextTokenCandidates(input, tokpos)
        run        == identifierRun(input, tokpos)
        keyword    == findType(candidates, {"BOOLEAN", "NULL"})
        bareWord   == findType(candidates, {"BARE_WORD"})
    IN  /\ keyword.type # "" <=> run \in Keywords
        /\ bareWord.type # "" <=> (run # <<>> /\ run \notin Keywords)
        /\ bareWord.type # "" =>
             /\ bareWord.score = 2
             /\ bareWord.value = run
             /\ bareWord.endPos = tokpos + Len(run)
        /\ ~(keyword.type # "" /\ bareWord.type # "")
        /\ (pc = "consumed" /\ spans # <<>>
              /\ identifierRun(input, spans[1].start) # <<>>) =>
             spans[1].end = spans[1].start + Len(identifierRun(input, spans[1].start))


\* the position of the first double quote of s at or after p that no
\* backslash escapes, or -1 when there is none
RECURSIVE closingQuote(_, _)
closingQuote(s, p) ==
  IF p >= Len(s) THEN 0 - 1
  ELSE IF CharAt(s, p) = "\\" THEN closingQuote(s, p + 2)
  ELSE IF CharAt(s, p) = "\"" THEN p
  ELSE closingQuote(s, p + 1)

\* the characters that the body of a string literal stands for
RECURSIVE decodeEscapes(_)
decodeEscapes(body) ==
  IF body = <<>> THEN <<>>
  ELSE IF Head(body) = "\\" /\ Len(body) >= 2
    THEN LET c == body[2]
         IN  <<CASE c = "n" -> "\n"
                 [] c = "t" -> "\t"
                 [] c = "r" -> "\r"
                 [] OTHER   -> c>> \o decodeEscapes(Tail(Tail(body)))
  ELSE <<Head(body)>> \o decodeEscapes(Tail(body))

\* C26: where the cursor is at a double quote that a later unescaped double
\* quote closes, nextTokenCandidates holds a STRING candidate of cost 0 that
\* ends just past the closing quote and whose value is the body with its
\* escapes \n, \t, \r, \\ and \" decoded.
C26_DoubleQuotedString ==
  (/\ entry = "SoftTokenizer"
   /\ CharAt(input, tokpos) = "\""
   /\ closingQuote(input, tokpos + 1) >= 0) =>
     LET close  == closingQuote(input, tokpos + 1)
         string == findType(nextTokenCandidates(input, tokpos), {"STRING"})
     IN  /\ string.type = "STRING"
         /\ string.score = 0
         /\ string.endPos = close + 1
         /\ string.value = decodeEscapes(substring(input, tokpos + 1, close))


\* C27: for every object of one pair whose bare-word value is followed on
\* its line by a # comment, repairObjectCandidate succeeds and decodes to the
\* pair with the trimmed word as its value; besides the quoting of the key
\* and of the value (2 each) and a closing brace added where the comment
\* held it (3), exactly one repair is logged, the removal of the comment,
\* and it costs exactly 1.
C27_InlineCommentCost ==
  (pc = "returned" /\ entry = "repairObjectCandidate") =>
    \A d \in CommentedValues :
      input = commentedValueText(d) =>
        LET braces == count(repaired.repairs, "added missing closing brace")
            others == SelectSeq(repaired.repairs,
                        LAMBDA r : r \notin {"quoted bare key", "quoted bare value",
                                             "added missing closing brace"})
        IN  /\ repaired.success
            /\ deepEqual(repaired.object, commentedValueValue(d))
            /\ Len(others) = 1
            /\ repaired.score = 2 + 2 + 3 * braces + 1


\* C28: for every YAML document of a key with no value on its line followed
\* by indented lines k: v, repairObjectCandidate succeeds and decodes to the
\* object that binds the key to the mapping of those pairs: the pairs are
\* inside the mapping, not at top level, and the key has no scalar value.
C28_KeyWithoutValueNests ==
  (pc = "returned" /\ entry = "repairObjectCandidate") =>
    \A d \in NestedMappings :
      input = nestedMappingText(d) =>
        /\ repaired.success
        /\ deepEqual(repaired.object, nestedMappingValue(d))


\* the YAML-key pattern at pos: only spaces and tabs since the start of the
\* line, then a bare word or a quoted string, then, after spaces and tabs
\* only, a colon
yamlKeyPattern(s, pos) ==
  LET token == bestToken(s, scanWhile(s, pos, {" ", "\t"}))
  IN  /\ atLineStart(s, pos - 1)
      /\ token.type \in {"BARE_WORD", "STRING"}
      /\ CharAt(s, scanWhile(s, token.endPos, {" ", "\t"})) = ":"

\* C29: while the SoftParser segments a buffer, looksLikeYAMLKey is true at
\* a cursor exactly when the YAML-key pattern is there: only spaces and tabs
\* since the start of the line, a bare word or quoted string next, and a
\* colon after it with nothing but spaces and tabs in between.
C29_YamlKeyRecognition ==
  pc = "segmenting" =>
    \A pos \in 0..Len(cleaned) :
      looksLikeYAMLKey(cleaned, pos) <=> yamlKeyPattern(cleaned, pos)


============================================================================
